---- MODULE Spec2Model ----
(***************************************************************************)
(* Passport MRZ extraction pipeline: the fixed-offset TD3 decoder          *)
(* (FallbackMRZ), the name field cleaner (clean_name_field), the           *)
(* acquisition strategy of PassportExtractor (detector, rotation retry,    *)
(* full-page OCR fallback) and the batch loop of the application.          *)
(*                                                                         *)
(* A Python str is a sequence of one-character strings; Python's None is   *)
(* the value None below, which is no str.                                  *)
(***************************************************************************)
EXTENDS Integers, Sequences, FiniteSets, TLC

VARIABLES
    line1In, line2In,   \* the two arguments of FallbackMRZ(line1, line2)
    mrz_obj,            \* the FallbackMRZ object built from them
    pcMRZ,              \* "new" before the constructor ran, then "built" or "raised"
    nameIn,             \* the argument of clean_name_field
    cleanedName,        \* clean_name_field(nameIn)
    recleanedName,      \* clean_name_field(cleanedName)
    pcName,             \* "raw", "cleaned", "recleaned"
    uploaded_files,     \* the batch of uploaded files, in input order
    file_i,             \* position of the next file of the batch (the loop's i, from 1)
    pc,                 \* "loop" while files are left to process, then "done"
    img_path,           \* position of the file the latest get_data ran on, 0 before
    calls,              \* collaborator calls of the latest get_data, in order
    line_pair,          \* (line1, line2, mrz) the latest extract_mrz_from_roi returned
    potential_lines,    \* candidates of the latest full-page fallback
    data,               \* what the latest get_data returned
    all_results,        \* the records collected so far
    outcomes,           \* what the loop reported for each file handled so far
    val_data,           \* the record given to validate_passport_data
    val_airline,        \* the airline identifier given to it
    val_result,         \* (is_valid, errors) it returned
    pcVal,              \* "start", then the module whose validator ran
    fmt_airline,        \* main's airline: the choice of the select box
    fmt_results,        \* main's all_results when the loop has ended
    df,                 \* the rows of the DataFrame main displays and exports
    pcFmt,              \* "start", then "formatted" or "no data"
    util_in,            \* the argument of a field normalizer
    util_out,           \* what it returned
    pcUtil              \* the kind of argument, then the normalizer that ran

mrzVars == <<line1In, line2In, mrz_obj, pcMRZ>>
nameVars == <<nameIn, cleanedName, recleanedName, pcName>>
acqVars == <<img_path, calls, line_pair, potential_lines, data>>
batchVars == <<uploaded_files, file_i, pc, all_results, outcomes>>
valVars == <<val_data, val_airline, val_result, pcVal>>
fmtVars == <<fmt_airline, fmt_results, df, pcFmt>>
utilVars == <<util_in, util_out, pcUtil>>
vars == <<mrzVars, nameVars, acqVars, batchVars, valVars, fmtVars, utilVars>>

----------------------------------------------------------------------------
(* Python values and str operations                                        *)

None == <<"None">>
EmptyStr == <<>>
FILLER == "<"
SPACE == " "

LowerLetters == <<"a","b","c","d","e","f","g","h","i","j","k","l","m","n","o","p","q","r","s","t","u","v","w","x","y","z">>
UpperLetters == <<"A","B","C","D","E","F","G","H","I","J","K","L","M","N","O","P","Q","R","S","T","U","V","W","X","Y","Z">>
Digits == <<"0","1","2","3","4","5","6","7","8","9">>

Range(s) == {s[i] : i \in DOMAIN s}
\* st.ascii_uppercase + st.digits + "<"
MRZAlphabet == Range(UpperLetters) \cup Range(Digits) \cup {"<"}
Min(a, b) == IF a < b THEN a ELSE b
Max(a, b) == IF a > b THEN a ELSE b
Rep(c, n) == [i \in 1..n |-> c]

\* s[a:b] of Python for 0 <= a <= b: out-of-range bounds are clamped
Slice(s, a, b) == SubSeq(s, a + 1, Min(b, Len(s)))
\* s[a:]
SliceFrom(s, a) == SubSeq(s, a + 1, Len(s))

\* s.replace(c, '')
RemoveChar(s, c) == SelectSeq(s, LAMBDA x : x # c)
\* s.replace(c, d) for single characters
ReplaceChar(s, c, d) == [i \in DOMAIN s |-> IF s[i] = c THEN d ELSE s[i]]

RECURSIVE LStrip(_, _)
LStrip(s, c) == IF s # <<>> /\ Head(s) = c THEN LStrip(Tail(s), c) ELSE s
RECURSIVE RStrip(_, _)
RStrip(s, c) == IF s # <<>> /\ s[Len(s)] = c THEN RStrip(SubSeq(s, 1, Len(s) - 1), c) ELSE s
\* s.strip(c)
StripChar(s, c) == RStrip(LStrip(s, c), c)

\* s.find('<<') + 1 scanning from position i (1-based); 0 when absent
RECURSIVE FindSepFrom(_, _)
FindSepFrom(s, i) ==
    IF i + 1 > Len(s) THEN 0
    ELSE IF s[i] = FILLER /\ s[i + 1] = FILLER THEN i
    ELSE FindSepFrom(s, i + 1)
FindSep(s) == FindSepFrom(s, 1)
\* '<<' in s
HasSep(s) == FindSep(s) # 0
\* s.split('<<', 1), for s that contains '<<'
SplitSepOnce(s) == <<SubSeq(s, 1, FindSep(s) - 1), SubSeq(s, FindSep(s) + 2, Len(s))>>

----------------------------------------------------------------------------
(* FallbackMRZ (fallback_mrz.py)                                           *)

TD3_LEN == 44

\* the object after the field initialisation of __init__, before _parse
NewMRZ(line1, line2) ==
    [line1 |-> line1, line2 |-> line2, valid |-> TRUE,
     type |-> EmptyStr, country |-> EmptyStr, surname |-> EmptyStr,
     names |-> EmptyStr, number |-> EmptyStr, nationality |-> EmptyStr,
     date_of_birth |-> EmptyStr, sex |-> EmptyStr,
     expiration_date |-> EmptyStr, personal_number |-> EmptyStr]

\* len(x) raises TypeError for None
LenRaises(x) == x = None

\* the name region of line 1 and its split into surname and given names
ParseNameNoStrip(o) ==
    LET full_name == SliceFrom(o.line1, 5) IN
    IF HasSep(full_name)
    THEN LET parts == SplitSepOnce(full_name) IN
         [o EXCEPT !.surname = StripChar(ReplaceChar(parts[1], FILLER, SPACE), SPACE),
                   !.names = StripChar(ReplaceChar(parts[2], FILLER, SPACE), SPACE)]
    ELSE [o EXCEPT !.surname = StripChar(ReplaceChar(full_name, FILLER, SPACE), SPACE)]

ParseName(o) ==
    LET full_name == StripChar(SliceFrom(o.line1, 5), FILLER) IN
    IF HasSep(full_name)
    THEN LET parts == SplitSepOnce(full_name) IN
         [o EXCEPT !.surname = StripChar(ReplaceChar(parts[1], FILLER, SPACE), SPACE),
                   !.names = StripChar(ReplaceChar(parts[2], FILLER, SPACE), SPACE)]
    ELSE [o EXCEPT !.surname = StripChar(ReplaceChar(full_name, FILLER, SPACE), SPACE)]

ParseLine1(o) ==
    IF Len(o.line1) >= TD3_LEN
    THEN ParseName([o EXCEPT !.type = RemoveChar(Slice(o.line1, 0, 2), FILLER),
                             !.country = RemoveChar(Slice(o.line1, 2, 5), FILLER)])
    ELSE o

Line2SexWrongOffset(o) ==
    IF Len(o.line2) >= TD3_LEN
    THEN [o EXCEPT !.number = RemoveChar(Slice(o.line2, 0, 9), FILLER),
                   !.nationality = RemoveChar(Slice(o.line2, 10, 13), FILLER),
                   !.date_of_birth = Slice(o.line2, 13, 19),
                   !.sex = <<o.line2[20]>>,
                   !.expiration_date = Slice(o.line2, 21, 27),
                   !.personal_number = RemoveChar(Slice(o.line2, 28, 42), FILLER)]
    ELSE o

ParseLine2(o) ==
    IF Len(o.line2) >= TD3_LEN
    THEN [o EXCEPT !.number = RemoveChar(Slice(o.line2, 0, 9), FILLER),
                   !.nationality = RemoveChar(Slice(o.line2, 10, 13), FILLER),
                   !.date_of_birth = Slice(o.line2, 13, 19),
                   !.sex = <<o.line2[21]>>,
                   !.expiration_date = Slice(o.line2, 21, 27),
                   !.personal_number = RemoveChar(Slice(o.line2, 28, 42), FILLER)]
    ELSE o

\* the body of the try statement of _parse: the object as far as it was
\* filled in, and the exception that left the body ("none" when it ran through)
ParseTryBody(o) ==
    IF LenRaises(o.line1) THEN [obj |-> o, exc |-> "TypeError"]
    ELSE LET o1 == ParseLine1(o) IN
         IF LenRaises(o.line2) THEN [obj |-> o1, exc |-> "TypeError"]
         ELSE [obj |-> ParseLine2(o1), exc |-> "none"]

ParseUnguarded(o) == ParseTryBody(o)

\* _parse: "except Exception: pass" swallows whatever the body raised
_parse(o) == [obj |-> ParseTryBody(o).obj, exc |-> "none"]

\* FallbackMRZ(line1, line2)
FallbackMRZ(line1, line2) == _parse(NewMRZ(line1, line2))

----------------------------------------------------------------------------
(* Inputs of the decoder                                                   *)

MaxBody == 4

RECURSIVE SeqsUpTo(_, _)
SeqsUpTo(S, n) ==
    IF n = 0 THEN {<<>>}
    ELSE LET shorter == SeqsUpTo(S, n - 1) IN
         shorter \cup {Append(s, c) : s \in {t \in shorter : Len(t) = n - 1}, c \in S}

PadTo(s, n) == s \o Rep(FILLER, n - Len(s))

ExLine1 == <<"P","<","U","T","O">> \o PadTo(<<"E","R","I","K","S","S","O","N","<","<","A","N","N","A","<","M","A","R","I","A">>, 39)
ExLine2 == <<"L","8","9","8","9","0","2","C","3">> \o <<"6","U","T","O">> \o <<"7","4","0","8","1","2","2">>
           \o <<"F">> \o <<"1","2","0","4","1","5","9">> \o <<"Z","E","1","8","4","2","2","6","B","<","<","<","<","<">> \o <<"1","0">>

\* name regions: every short body over {A, B, <}, padded with filler, two bodies
\* with filler in front of a separated name, and two regions filled to the end
NameBodies ==
    SeqsUpTo({"A", "B", FILLER}, MaxBody)
    \cup {<<"<","<","A","<","<","B">>, <<"<","A","B","<","<","B","<","A">>}
    \cup {Rep("A", 20) \o <<FILLER>> \o Rep("B", 18), Rep("A", 38)}

WellFormedLine1 ==
    {ExLine1} \cup
    {ty \o <<"U","T","O">> \o PadTo(b, 39) : ty \in {<<"P","<">>, <<"<","V">>}, b \in NameBodies}

WellFormedLine2 ==
    {ExLine2} \cup
    {num \o <<"6">> \o nat \o <<"7","4","0","8","1","2","2">> \o sx \o <<"1","2","0","4","1","5","9">> \o pn \o <<"1","0">> :
        num \in {<<"L","8","9","8","9","0","2","C","3">>, <<"A","B","<","1","2","3","<","<","<">>},
        nat \in {<<"U","T","O">>, <<"D","<","<">>},
        sx \in {<<"F">>, <<"M">>, <<"<">>},
        pn \in {<<"Z","E","1","8","4","2","2","6","B","<","<","<","<","<">>, Rep(FILLER, 14)}}

\* absent, empty, too short, one short of a full line, and longer than a line
MalformedLines ==
    {None, EmptyStr, <<"P","<","U","T","O">>, SubSeq(ExLine2, 1, 43), ExLine1 \o <<"X","<","<","Y">>}

Line1Inputs == WellFormedLine1 \cup MalformedLines
Line2Inputs == WellFormedLine2 \cup MalformedLines

NoObj == [exc |-> "unbuilt"]

StartMRZ ==
    /\ line1In \in Line1Inputs
    /\ line2In \in Line2Inputs
    /\ mrz_obj = NoObj
    /\ pcMRZ = "new"

IdleMRZ ==
    /\ line1In = None
    /\ line2In = None
    /\ mrz_obj = NoObj
    /\ pcMRZ = "idle"

\* mrz = FallbackMRZ(line1, line2), as its callers run it
Construct ==
    /\ pcMRZ = "new"
    /\ LET r == FallbackMRZ(line1In, line2In) IN
       IF r.exc = "none"
       THEN /\ mrz_obj' = r.obj
            /\ pcMRZ' = "built"
       ELSE /\ mrz_obj' = NoObj
            /\ pcMRZ' = "raised"
    /\ UNCHANGED <<line1In, line2In>>

----------------------------------------------------------------------------
(* clean_name_field (utils.py)                                             *)

NOISE == "K"

\* c.upper() for one character
UpperChar(c) ==
    IF \E i \in DOMAIN LowerLetters : LowerLetters[i] = c
    THEN UpperLetters[CHOOSE i \in DOMAIN LowerLetters : LowerLetters[i] = c]
    ELSE c
\* text.upper()
Upper(s) == [i \in DOMAIN s |-> UpperChar(s[i])]

\* text.replace("<<", " "): left to right, occurrences do not overlap
RECURSIVE ReplaceSep(_)
ReplaceSep(s) ==
    IF Len(s) < 2 THEN s
    ELSE IF s[1] = FILLER /\ s[2] = FILLER THEN <<SPACE>> \o ReplaceSep(SubSeq(s, 3, Len(s)))
    ELSE <<s[1]>> \o ReplaceSep(Tail(s))

IsSpace(c) == c \in {" ", "\t", "\n"}

\* text.split(): the maximal runs of non-whitespace; cur is the run being read
RECURSIVE SplitFrom(_, _, _)
SplitFrom(s, cur, acc) ==
    IF s = <<>> THEN (IF cur = <<>> THEN acc ELSE Append(acc, cur))
    ELSE IF IsSpace(Head(s))
         THEN SplitFrom(Tail(s), <<>>, IF cur = <<>> THEN acc ELSE Append(acc, cur))
         ELSE SplitFrom(Tail(s), Append(cur, Head(s)), acc)
Split(s) == SplitFrom(s, <<>>, <<>>)

JoinNoSeparator(ws) ==
    LET RECURSIVE J(_)
        J(k) == IF k = 0 THEN <<>> ELSE J(k - 1) \o ws[k]
    IN J(Len(ws))

\* " ".join(ws)
JoinWords(ws) ==
    LET RECURSIVE J(_)
        J(k) == IF k = 0 THEN <<>>
                ELSE IF k = 1 THEN ws[1]
                ELSE J(k - 1) \o <<SPACE>> \o ws[k]
    IN J(Len(ws))

\* word.count('K')
CountNoise(word) == Cardinality({i \in DOMAIN word : word[i] = NOISE})

\* the test with a threshold of 70% or more
IsLongJunkFrom70(word) == Len(word) >= 3 /\ 10 * CountNoise(word) >= 7 * Len(word)

\* len(word) >= 3 and k_count / len(word) > 0.7; the quotient of two small
\* integers exceeds the float 0.7 exactly when it exceeds 7/10
IsLongJunk(word) == Len(word) >= 3 /\ 10 * CountNoise(word) > 7 * Len(word)

\* len(word) <= 2 and all(c in 'K' for c in word)
IsShortJunk(word) == Len(word) <= 2 /\ \A i \in DOMAIN word : word[i] = NOISE

\* junk_sequence_len: the short junk tokens in a row from words[i] on (1-based i)
RECURSIVE JunkSequenceLen(_, _)
JunkSequenceLen(words, i) ==
    IF i > Len(words) THEN 0
    ELSE IF IsShortJunk(words[i]) THEN 1 + JunkSequenceLen(words, i + 1)
    ELSE 0

JunkRunOfThree(words, i) == JunkSequenceLen(words, i) >= 3

\* if junk_sequence_len >= 2: break
IsJunkRun(words, i) == JunkSequenceLen(words, i) >= 2

\* the for loop over words: cleaned_words when it ends or breaks
RECURSIVE ScanWords(_, _, _)
ScanWords(words, i, cleaned_words) ==
    IF i > Len(words) THEN cleaned_words
    ELSE IF IsLongJunk(words[i]) THEN cleaned_words
    ELSE IF IsShortJunk(words[i]) /\ IsJunkRun(words, i) THEN cleaned_words
    ELSE ScanWords(words, i + 1, Append(cleaned_words, words[i]))

\* the text after upper() and the first replace() call only
ExpandSepOnly(text) == ReplaceSep(Upper(text))

\* the text after upper() and the two replace() calls
ExpandFiller(text) == ReplaceChar(ReplaceSep(Upper(text)), FILLER, SPACE)

\* "not text": None and the empty str are falsy
Falsy(x) == x = None \/ x = EmptyStr
Truthy(x) == ~Falsy(x)

clean_name_field(text) ==
    IF Falsy(text) THEN EmptyStr
    ELSE StripChar(JoinWords(ScanWords(Split(ExpandFiller(text)), 1, <<>>)), SPACE)

----------------------------------------------------------------------------
(* Inputs of the name cleaner                                              *)

MaxNameLen == 6

NameIBRAHEEM == <<"I","B","R","A","H","E","E","M">>
NameIBRAHEEM_K == NameIBRAHEEM \o <<" ","K">>
NameIBRAHEEM_K_K == NameIBRAHEEM \o <<" ","K"," ","K">>

\* every short text over {K, a, space, <}; the spec's examples; a token whose
\* share of K is exactly 7 of 10 and one just above it; a lower-case noise
\* run; a token of 7 K in 10 after a run of two short K tokens
NameInputs ==
    SeqsUpTo({"K", "a", SPACE, FILLER}, MaxNameLen)
    \cup {None, NameIBRAHEEM, NameIBRAHEEM_K, NameIBRAHEEM_K_K}
    \cup {<<"A","L","I"," ">> \o Rep("K", 7) \o <<"A","B","C">> \o <<" ","X">>,
          <<"A","L","I"," ">> \o Rep("K", 8) \o <<"A","B","C">> \o <<" ","X">>,
          <<"a","l","i","<","<","k","k","k","k","<","k">>,
          <<"K"," ","K"," ">> \o Rep("K", 7) \o <<"A","B","C">>}

StartName ==
    /\ nameIn \in NameInputs
    /\ cleanedName = None
    /\ recleanedName = None
    /\ pcName = "raw"

IdleName ==
    /\ nameIn = None
    /\ cleanedName = None
    /\ recleanedName = None
    /\ pcName = "idle"

\* surname = clean_name_field(...)
CleanName ==
    /\ pcName = "raw"
    /\ cleanedName' = clean_name_field(nameIn)
    /\ pcName' = "cleaned"
    /\ UNCHANGED <<nameIn, recleanedName>>

\* the cleaner applied to a name that is already clean
ReCleanName ==
    /\ pcName = "cleaned"
    /\ recleanedName' = clean_name_field(cleanedName)
    /\ pcName' = "recleaned"
    /\ UNCHANGED <<nameIn, cleanedName>>

----------------------------------------------------------------------------
(* Field normalizers (utils.py)                                            *)

\* c.isalnum() for the characters of the model
IsAlnum(c) == c \in Range(LowerLetters) \cup Range(UpperLetters) \cup Range(Digits)

\* str(x): the text "None" for None
Str(x) == IF x = None THEN <<"N","o","n","e">> ELSE x

clean_string(text) ==
    IF Falsy(text) THEN EmptyStr ELSE Upper(SelectSeq(text, IsAlnum))

IsAllowed(c) == c \in MRZAlphabet

clean_mrz_line(line) ==
    IF Falsy(line) THEN EmptyStr
    ELSE LET kept == SelectSeq(RemoveChar(Upper(line), SPACE), IsAllowed)
             padded == IF Len(kept) < TD3_LEN
                       THEN kept \o Rep(FILLER, TD3_LEN - Len(kept))
                       ELSE kept
         IN SubSeq(padded, 1, TD3_LEN)

\* get_sex without the reading of the digit 0 as M
GetSexKeepingZero(code) ==
    IF Falsy(code) THEN EmptyStr ELSE Upper(Str(code))

get_sex(code) ==
    LET c == IF Falsy(code) THEN EmptyStr ELSE Upper(Str(code)) IN
    IF c \in {<<"M">>, <<"F">>} THEN c
    ELSE IF c = <<"0">> THEN <<"M">>
    ELSE c

\* config.settings.COUNTRY_CODES: the reference table of alpha-3 codes and names
COUNTRY_CODES ==
    << [alpha3 |-> <<"U","T","O">>, name |-> <<"U","t","o","p","i","a">>],
       [alpha3 |-> <<"I","R","Q">>, name |-> <<"I","r","a","q">>] >>

\* get_country_name giving back an unresolved code as it came
GetCountryNameRaw(country_code) ==
    LET code == Upper(Str(country_code))
        hits == {k \in DOMAIN COUNTRY_CODES : COUNTRY_CODES[k].alpha3 = code}
    IN IF hits = {} THEN Str(country_code)
       ELSE Upper(COUNTRY_CODES[CHOOSE k \in hits : \A j \in hits : k <= j].name)

get_country_name(country_code) ==
    LET code == Upper(Str(country_code))
        hits == {i \in DOMAIN COUNTRY_CODES : COUNTRY_CODES[i].alpha3 = code}
    IN IF hits = {} THEN code
       ELSE Upper(COUNTRY_CODES[CHOOSE i \in hits : \A j \in hits : i <= j].name)

\* the year dateutil reads from the clock when it resolves a two-digit year
ThisYear == 2026

DigitVal(c) == (CHOOSE i \in DOMAIN Digits : Digits[i] = c) - 1
AllDigits(s) == \A i \in DOMAIN s : s[i] \in Range(Digits)
TwoDigits(s, k) == 10 * DigitVal(s[k]) + DigitVal(s[k + 1])
DigitChar(n) == Digits[n + 1]
Pad2(n) == <<DigitChar(n \div 10), DigitChar(n % 10)>>
Pad4(n) == Pad2(n \div 100) \o Pad2(n % 100)
IsLeap(y) == (y % 4 = 0 /\ y % 100 # 0) \/ y % 400 = 0
DaysInMonth(y, m) ==
    IF m \in {4, 6, 9, 11} THEN 30
    ELSE IF m = 2 THEN (IF IsLeap(y) THEN 29 ELSE 28)
    ELSE 31
\* dateutil's convertyear: the year within fifty years of the current one
ConvertYear(yy) ==
    LET y == yy + 100 * (ThisYear \div 100) IN
    IF y >= ThisYear + 50 THEN y - 100
    ELSE IF y < ThisYear - 50 THEN y + 100
    ELSE y
\* dateutil's resolve_ymd for three numbers, yearfirst=True, dayfirst=False
ResolveYMD(a, b, c) ==
    IF a > 31 \/ (b <= 12 /\ c <= 31) THEN [y |-> a, m |-> b, d |-> c]
    ELSE IF a > 12 THEN [y |-> c, m |-> b, d |-> a]
    ELSE [y |-> c, m |-> a, d |-> b]

\* parse_date for the values get_data passes: str(date_obj) when the parser
\* raises ValueError, else the date as DD/MM/YYYY. A six-digit text is read
\* as YYMMDD by dateutil; a text with filler, or an empty one, is rejected.
parse_date(date_obj) ==
    LET date_str == Str(date_obj) IN
    IF Len(date_str) = 6 /\ AllDigits(date_str)
    THEN LET r == ResolveYMD(TwoDigits(date_str, 1), TwoDigits(date_str, 3), TwoDigits(date_str, 5))
             year == ConvertYear(r.y)
         IN IF r.m \in 1..12 /\ r.d \in 1..DaysInMonth(year, r.m)
            THEN Pad2(r.d) \o <<"/">> \o Pad2(r.m) \o <<"/">> \o Pad4(year)
            ELSE date_str
    ELSE date_str

----------------------------------------------------------------------------
(* PassportExtractor: acquisition (extractor.py)                           *)
(*                                                                         *)
(* An image is described by what the collaborators return on it: the       *)
(* angles at which the detector read_mrz finds an MRZ, the sex code the    *)
(* detector parsed, the text the OCR reads in the located region and on    *)
(* the full page, the given name read in the visual zone, and the          *)
(* collaborator calls that raise on it.                                    *)

NoneMRZ == [kind |-> "None"]
NoneData == [kind |-> "None"]
NoneTriple == [line1 |-> None, line2 |-> None, mrz |-> NoneMRZ]

Raises(img, site, angle) == <<site, angle>> \in img.faults

Call(op, angle, out) == [op |-> op, angle |-> angle, out |-> out]

\* the object read_mrz returns when it finds the MRZ on the image rotated by angle
DetectorMRZ(img, angle) ==
    [kind |-> "MRZ", from_angle |-> angle, valid_score |-> 62,
     type |-> <<"P","<">>, country |-> <<"U","T","O">>,
     surname |-> <<"E","R","I","K","S","S","O","N">>,
     names |-> <<"A","N","N","A"," ","M","A","R","I","A">>,
     number |-> <<"L","8","9","8","9","0","2","C","3">>,
     nationality |-> <<"U","T","O">>,
     date_of_birth |-> <<"7","4","0","8","1","2">>,
     sex |-> img.det_sex,
     expiration_date |-> <<"1","2","0","4","1","5">>]

ROTATION_ANGLES == <<90, 180, 270>>

\* the for loop of _retry_with_rotation from the k-th angle on
RECURSIVE RotationLoop(_, _, _)
RotationLoop(img, k, log) ==
    IF k > Len(ROTATION_ANGLES) THEN [mrz |-> NoneMRZ, calls |-> log]
    ELSE LET angle == ROTATION_ANGLES[k] IN
         IF Raises(img, "save", angle) THEN [mrz |-> NoneMRZ, calls |-> log]
         ELSE IF Raises(img, "read_mrz", angle)
              THEN [mrz |-> NoneMRZ, calls |-> Append(log, Call("read_mrz", angle, "raise"))]
         ELSE IF angle \in img.detects
              THEN [mrz |-> DetectorMRZ(img, angle),
                    calls |-> Append(log, Call("read_mrz", angle, "found"))]
         ELSE RotationLoop(img, k + 1, Append(log, Call("read_mrz", angle, "none")))

RetryAllAngles(img) ==
    LET RECURSIVE Loop(_, _)
        Loop(k, r) ==
            IF k > Len(ROTATION_ANGLES) THEN r
            ELSE LET angle == ROTATION_ANGLES[k]
                     out == IF angle \in img.detects THEN "found" ELSE "none"
                 IN Loop(k + 1, [mrz |-> IF out = "found" THEN DetectorMRZ(img, angle) ELSE r.mrz,
                                 calls |-> Append(r.calls, Call("read_mrz", angle, out))])
    IN Loop(1, [mrz |-> NoneMRZ, calls |-> <<>>])

\* _retry_with_rotation: the MRZ of the first angle that has one, else None;
\* any exception ends the retry with None
_retry_with_rotation(img) ==
    IF Raises(img, "open", 0) THEN [mrz |-> NoneMRZ, calls |-> <<>>]
    ELSE RotationLoop(img, 1, <<>>)

\* clean.startswith(('P<', 'I<', 'A<', 'V<'))
StartsWithPrefix(l) == Len(l) >= 2 /\ l[1] \in {"P", "I", "A", "V"} /\ l[2] = FILLER

\* len(clean) > 30 and ('<<' in clean or clean.startswith(...))
IsCandidate(clean) == Len(clean) > 30 /\ (HasSep(clean) \/ StartsWithPrefix(clean))

\* potential_lines of a full-page reading
PotentialLines(result) ==
    SelectSeq([k \in DOMAIN result |-> clean_mrz_line(result[k])], IsCandidate)

\* the choice that re-anchors whenever a prefix line precedes the last two
SelectPairAnyAnchor(pl) ==
    LET n == Len(pl)
        anchors == {k \in 1..(n - 2) : StartsWithPrefix(pl[k])}
    IN IF anchors # {}
       THEN LET k == CHOOSE a \in anchors : \A b \in anchors : a <= b
            IN <<pl[k], pl[k + 1]>>
       ELSE <<pl[n - 1], pl[n]>>

\* line1, line2 chosen among two or more candidates
SelectPair(pl) ==
    LET n == Len(pl)
        anchors == {k \in 1..(n - 1) : StartsWithPrefix(pl[k])}
    IN IF pl[n - 1][1] \notin {"P", "I", "A", "V"} /\ anchors # {}
       THEN LET k == CHOOSE a \in anchors : \A b \in anchors : a <= b
            IN <<pl[k], pl[k + 1]>>
       ELSE <<pl[n - 1], pl[n]>>

FallbackNeedsThree(img) ==
    IF Raises(img, "readtext", 0)
    THEN [triple |-> NoneTriple, potential |-> <<>>,
          calls |-> <<Call("readtext_page", 0, "raise")>>]
    ELSE LET pl == PotentialLines(img.page_text) IN
         [triple |-> IF Len(pl) >= 3
                     THEN [line1 |-> SelectPair(pl)[1], line2 |-> SelectPair(pl)[2],
                           mrz |-> FallbackMRZ(SelectPair(pl)[1], SelectPair(pl)[2]).obj]
                     ELSE NoneTriple,
          potential |-> pl,
          calls |-> <<Call("readtext_page", 0, "ok")>>]

\* a fallback that reads the page a second time when the first pass gave
\* fewer than two candidates
FallbackReadingAgain(img) ==
    IF Raises(img, "readtext", 0)
    THEN [triple |-> NoneTriple, potential |-> <<>>,
          calls |-> <<Call("readtext_page", 0, "raise")>>]
    ELSE LET pl == PotentialLines(img.page_text) IN
         [triple |-> IF Len(pl) >= 2
                     THEN [line1 |-> SelectPair(pl)[1], line2 |-> SelectPair(pl)[2],
                           mrz |-> FallbackMRZ(SelectPair(pl)[1], SelectPair(pl)[2]).obj]
                     ELSE NoneTriple,
          potential |-> pl,
          calls |-> IF Len(pl) >= 2 THEN <<Call("readtext_page", 0, "ok")>>
                    ELSE <<Call("readtext_page", 0, "ok"), Call("readtext_page", 0, "ok")>>]

\* _fallback_direct_easyocr: OCR of the whole unrotated image
_fallback_direct_easyocr(img) ==
    IF Raises(img, "readtext", 0)
    THEN [triple |-> NoneTriple, potential |-> <<>>,
          calls |-> <<Call("readtext_page", 0, "raise")>>]
    ELSE LET pl == PotentialLines(img.page_text) IN
         [triple |-> IF Len(pl) >= 2
                     THEN [line1 |-> SelectPair(pl)[1], line2 |-> SelectPair(pl)[2],
                           mrz |-> FallbackMRZ(SelectPair(pl)[1], SelectPair(pl)[2]).obj]
                     ELSE NoneTriple,
          potential |-> pl,
          calls |-> <<Call("readtext_page", 0, "ok")>>]

SEX_OFFSET == 20

\* the correction written one position further
CorrectSexAtNextOffset(line2, mrz) ==
    IF Truthy(mrz.sex) /\ Len(line2) > SEX_OFFSET + 1
    THEN SubSeq(line2, 1, SEX_OFFSET + 1) \o mrz.sex \o SubSeq(line2, SEX_OFFSET + 3, Len(line2))
    ELSE line2

\* line 2 with the detector's sex code written over offset 20
CorrectSex(line2, mrz) ==
    IF Truthy(mrz.sex) /\ Len(line2) > SEX_OFFSET
    THEN SubSeq(line2, 1, SEX_OFFSET) \o mrz.sex \o SubSeq(line2, SEX_OFFSET + 2, Len(line2))
    ELSE line2

\* extract_mrz_from_roi after the detector found mrz: OCR of the located region
ReadRegion(img, mrz) ==
    IF Raises(img, "roi", 0)
    THEN [triple |-> NoneTriple, calls |-> <<Call("readtext_roi", mrz.from_angle, "raise")>>]
    ELSE LET code == img.roi_text IN
         [triple |-> IF Len(code) < 2
                     THEN [line1 |-> None, line2 |-> None, mrz |-> mrz]
                     ELSE [line1 |-> clean_mrz_line(code[1]),
                           line2 |-> CorrectSex(clean_mrz_line(code[2]), mrz),
                           mrz |-> mrz],
          calls |-> <<Call("readtext_roi", mrz.from_angle, "ok")>>]

\* extract_mrz_from_roi: (line1, line2, mrz), the candidates of the fallback
\* when it ran, and the collaborator calls made, in order
extract_mrz_from_roi(img) ==
    IF Raises(img, "read_mrz", 0)
    THEN [triple |-> NoneTriple, potential |-> <<>>, calls |-> <<Call("read_mrz", 0, "raise")>>]
    ELSE LET found0 == 0 \in img.detects
             first == <<Call("read_mrz", 0, IF found0 THEN "found" ELSE "none")>>
             retry == IF found0 THEN [mrz |-> DetectorMRZ(img, 0), calls |-> <<>>]
                      ELSE _retry_with_rotation(img)
         IN IF retry.mrz = NoneMRZ
            THEN LET fb == _fallback_direct_easyocr(img) IN
                 [triple |-> fb.triple, potential |-> fb.potential,
                  calls |-> first \o retry.calls \o fb.calls]
            ELSE LET rr == ReadRegion(img, retry.mrz) IN
                 [triple |-> rr.triple, potential |-> <<>>,
                  calls |-> first \o retry.calls \o rr.calls]

\* getattr(mrz, name, default)
GetAttr(mrz, name, default) == IF name \in DOMAIN mrz THEN mrz[name] ELSE default

\* get_data from line 497 on: the record built from what the acquisition returned
BuildData(t, visual_given_name) ==
    LET mrz == IF Truthy(t.line1) /\ Truthy(t.line2)
               THEN FallbackMRZ(t.line1, t.line2).obj
               ELSE t.mrz
    IN IF mrz = NoneMRZ THEN NoneData
       ELSE [kind |-> "record",
             surname |-> clean_name_field(GetAttr(mrz, "surname", EmptyStr)),
             name |-> IF Truthy(visual_given_name) /\ Len(visual_given_name) > 1
                      THEN clean_name_field(visual_given_name)
                      ELSE clean_name_field(GetAttr(mrz, "names", GetAttr(mrz, "name", EmptyStr))),
             country |-> get_country_name(GetAttr(mrz, "country", EmptyStr)),
             nationality |-> get_country_name(GetAttr(mrz, "nationality", EmptyStr)),
             passport_number |-> clean_string(GetAttr(mrz, "number", EmptyStr)),
             sex |-> get_sex(GetAttr(mrz, "sex", EmptyStr)),
             date_of_birth |-> parse_date(GetAttr(mrz, "date_of_birth", EmptyStr)),
             expiration_date |-> parse_date(GetAttr(mrz, "expiration_date", EmptyStr)),
             mrz_full_string |-> (IF Truthy(t.line1) THEN t.line1 ELSE EmptyStr)
                                 \o (IF Truthy(t.line2) THEN t.line2 ELSE EmptyStr),
             valid_score |-> GetAttr(mrz, "valid_score", 0)]

\* get_data(img_path) on an existing image file
get_data(img) ==
    LET ex == extract_mrz_from_roi(img) IN
    [data |-> BuildData(ex.triple, img.visual), triple |-> ex.triple,
     potential |-> ex.potential, calls |-> ex.calls]

----------------------------------------------------------------------------
(* Inputs of the acquisition                                               *)

TextUTOPIA == <<"U","T","O","P","I","A">>
TextREPUBLIC == <<"R","e","p","u","b","l","i","c">>
TextDigits == Rep("1", 44)
TextAnna == <<"A","n","n","a">>
ExLine2Male == SubSeq(ExLine2, 1, 20) \o <<"M">> \o SubSeq(ExLine2, 22, 44)

\* what the OCR reads in the located region: nothing, one line, the two MRZ
\* lines, the two lines with a misread sex code and lower-case noise
RoiTexts ==
    {<<>>, <<ExLine1>>, <<ExLine1, ExLine2>>,
     <<SubSeq(ExLine1, 1, 30), <<" ","l","8">> \o SubSeq(ExLine2Male, 3, 44)>>}

\* what the OCR reads on the whole page
PageTexts ==
    {<<>>, <<EmptyStr>>, <<ExLine1>>, <<TextUTOPIA, TextDigits>>,
     <<ExLine1, ExLine2>>, <<TextUTOPIA, TextREPUBLIC>>,
     <<TextUTOPIA, ExLine1, ExLine2>>, <<ExLine1, ExLine2, TextUTOPIA>>,
     <<ExLine1, ExLine2, TextAnna, TextUTOPIA>>}

FaultSites ==
    {<<"read_mrz", 0>>, <<"open", 0>>, <<"roi", 0>>, <<"readtext", 0>>}
    \cup {<<"save", ROTATION_ANGLES[k]>> : k \in DOMAIN ROTATION_ANGLES}
    \cup {<<"read_mrz", ROTATION_ANGLES[k]>> : k \in DOMAIN ROTATION_ANGLES}

\* an image on which at most one collaborator call raises
Images ==
    [detects : SUBSET {0, 90, 180, 270},
     det_sex : {EmptyStr, <<"F">>},
     roi_text : RoiTexts,
     page_text : PageTexts,
     visual : {None, TextAnna},
     faults : {{}} \cup {{f} : f \in FaultSites}]

UprightImage ==
    [detects |-> {0}, det_sex |-> <<"F">>, roi_text |-> <<ExLine1, ExLine2>>,
     page_text |-> <<>>, visual |-> None, faults |-> {}]
PageOnlyImage ==
    [detects |-> {}, det_sex |-> EmptyStr, roi_text |-> <<>>,
     page_text |-> <<TextUTOPIA, ExLine1, ExLine2Male>>, visual |-> TextAnna, faults |-> {}]
BlankImage ==
    [detects |-> {}, det_sex |-> EmptyStr, roi_text |-> <<>>,
     page_text |-> <<>>, visual |-> None, faults |-> {}]
RaisingImage ==
    [detects |-> {0}, det_sex |-> <<"F">>, roi_text |-> <<ExLine1, ExLine2>>,
     page_text |-> <<>>, visual |-> None, faults |-> {<<"read_mrz", 0>>}]

----------------------------------------------------------------------------
(* The application: process_pdf_file and the loop of main (app.py)         *)

MAX_FILE_SIZE == 10 * 1024 * 1024

ImageFile(img) == [kind |-> "image", size |-> 1024, img |-> img, pages |-> <<>>]
PdfFile(pages) == [kind |-> "pdf", size |-> 1024, img |-> BlankImage, pages |-> pages]
TooLarge(f) == [f EXCEPT !.size = MAX_FILE_SIZE + 1]

\* res['source_file'] = name
WithSource(res, name) ==
    [k \in DOMAIN res \cup {"source_file"} |-> IF k = "source_file" THEN name ELSE res[k]]

\* the parameters the effective PassportExtractor.process_pdf takes by keyword
PROCESS_PDF_PARAMS == {"pdf_path"}

\* the re-cleaning of mrz_full_string in process_pdf
RecleanFull(result) ==
    IF result # NoneData /\ Len(result.mrz_full_string) >= 2 * TD3_LEN
    THEN [result EXCEPT !.mrz_full_string =
              clean_mrz_line(SubSeq(result.mrz_full_string, 1, TD3_LEN))
              \o clean_mrz_line(SubSeq(result.mrz_full_string, TD3_LEN + 1, Len(result.mrz_full_string)))]
    ELSE result

\* PassportExtractor.process_pdf(pdf_path): the records of the pages, in order
RECURSIVE process_pdf(_)
process_pdf(pages) ==
    IF pages = <<>> THEN <<>>
    ELSE LET result == RecleanFull(get_data(Head(pages)).data) IN
         (IF result # NoneData THEN <<result>> ELSE <<>>) \o process_pdf(Tail(pages))

\* process_pdf_file: the call passes airline and progress_callback by keyword;
\* a keyword the method does not take raises TypeError, which is caught
process_pdf_file(file) ==
    IF ~({"airline", "progress_callback"} \subseteq PROCESS_PDF_PARAMS) THEN <<>>
    ELSE LET results == process_pdf(file.pages) IN
         [k \in DOMAIN results |-> WithSource(results[k], file.name)]

ExtendFromScratch(results, more) == more

\* all_results.extend(results)
extend(results, more) == results \o more

MaxFiles == 5

Named(fs) == [k \in DOMAIN fs |-> [name |-> k, kind |-> fs[k].kind, size |-> fs[k].size,
                                   img |-> fs[k].img, pages |-> fs[k].pages]]

\* batches of MaxFiles images that succeed, find nothing or raise; short
\* batches with a PDF or an oversized file; every single image
Batches ==
    {Named(fs) : fs \in [1..MaxFiles -> {ImageFile(UprightImage), ImageFile(PageOnlyImage),
                                         ImageFile(BlankImage), ImageFile(RaisingImage)}]}
    \cup {Named(<<f, g>>) : f, g \in {ImageFile(UprightImage), ImageFile(BlankImage),
                                      PdfFile(<<UprightImage>>), TooLarge(ImageFile(UprightImage)),
                                      TooLarge(PdfFile(<<UprightImage>>))}}
    \cup {Named(<<ImageFile(img)>>) : img \in Images}
    \cup {<<>>}

IdleAcq ==
    /\ img_path = 0
    /\ calls = <<>>
    /\ line_pair = NoneTriple
    /\ potential_lines = <<>>
    /\ data = NoneData

IdleBatch ==
    /\ uploaded_files = <<>>
    /\ file_i = 1
    /\ pc = "idle"
    /\ all_results = <<>>
    /\ outcomes = <<>>

\* the file is over the size limit: reported and skipped
SkipTooLarge ==
    /\ pc = "loop"
    /\ file_i <= Len(uploaded_files)
    /\ uploaded_files[file_i].size > MAX_FILE_SIZE
    /\ outcomes' = Append(outcomes, "too_large")
    /\ file_i' = file_i + 1
    /\ UNCHANGED <<uploaded_files, pc, all_results, acqVars>>

\* the PDF branch of the loop body
ProcessPdf ==
    /\ pc = "loop"
    /\ file_i <= Len(uploaded_files)
    /\ uploaded_files[file_i].size <= MAX_FILE_SIZE
    /\ uploaded_files[file_i].kind = "pdf"
    /\ \E results \in {process_pdf_file(uploaded_files[file_i])} :
       LET file == uploaded_files[file_i]
       IN /\ all_results' = extend(all_results,
                                   [k \in DOMAIN results |-> WithSource(results[k], file.name)])
          /\ outcomes' = Append(outcomes, IF results = <<>> THEN "no_data" ELSE "ok")
    /\ file_i' = file_i + 1
    /\ UNCHANGED <<uploaded_files, pc, acqVars>>

\* the image branch of the loop body
ProcessImage ==
    /\ pc = "loop"
    /\ file_i <= Len(uploaded_files)
    /\ uploaded_files[file_i].size <= MAX_FILE_SIZE
    /\ uploaded_files[file_i].kind = "image"
    /\ \E r \in {get_data(uploaded_files[file_i].img)} :
       LET file == uploaded_files[file_i]
           results == IF r.data # NoneData THEN <<r.data>> ELSE <<>>
       IN /\ img_path' = file_i
          /\ calls' = r.calls
          /\ line_pair' = r.triple
          /\ potential_lines' = r.potential
          /\ data' = r.data
          /\ all_results' = extend(all_results,
                                   [k \in DOMAIN results |-> WithSource(results[k], file.name)])
          /\ outcomes' = Append(outcomes, IF results = <<>> THEN "no_data" ELSE "ok")
    /\ file_i' = file_i + 1
    /\ UNCHANGED <<uploaded_files, pc>>

\* the loop has run over every file
Finish ==
    /\ pc = "loop"
    /\ file_i > Len(uploaded_files)
    /\ pc' = "done"
    /\ UNCHANGED <<uploaded_files, file_i, all_results, outcomes, acqVars>>

----------------------------------------------------------------------------
(* validate_passport_data (validators.py, imported by app.py; validator.py) *)
(*                                                                         *)
(* A record is a function from the keys it has to their values; the        *)
(* values of the fields are str. An error message is the text before the   *)
(* colon, the field it names and the value it quotes.                      *)

LowerChar(c) ==
    IF \E k \in DOMAIN UpperLetters : UpperLetters[k] = c
    THEN LowerLetters[CHOOSE k \in DOMAIN UpperLetters : UpperLetters[k] = c]
    ELSE c
\* text.lower()
Lower(s) == [k \in DOMAIN s |-> LowerChar(s[k])]

RECURSIVE LStripWs(_)
LStripWs(s) == IF s # <<>> /\ IsSpace(Head(s)) THEN LStripWs(Tail(s)) ELSE s
RECURSIVE RStripWs(_)
RStripWs(s) == IF s # <<>> /\ IsSpace(s[Len(s)]) THEN RStripWs(SubSeq(s, 1, Len(s) - 1)) ELSE s
\* text.strip()
Strip(s) == RStripWs(LStripWs(s))

\* data.get(field)
Get(d, field) == IF field \in DOMAIN d THEN d[field] ELSE None
\* data.get(field, '')
GetOr(d, field, default) == IF field \in DOMAIN d THEN d[field] ELSE default
\* "not data": None and the empty dict
FalsyData(d) == DOMAIN d = {} \/ (DOMAIN d = {"kind"} /\ d.kind = "None")

Error(msg, field, arg) == [msg |-> msg, field |-> field, arg |-> arg]
Result(errors) == [is_valid |-> Len(errors) = 0, errors |-> errors]
\* a return before any field is looked at
EarlyResult(error) == [is_valid |-> FALSE, errors |-> <<error>>]

TextIraq == <<"i","r","a","q">>
TextIraqi == <<"i","r","a","q","i">>
TextFlydubai == <<"f","l","y","d","u","b","a","i">>
TextFly_dubai == <<"f","l","y","_","d","u","b","a","i">>
TextFz == <<"f","z">>
TextUnknown == <<"u","n","k","n","o","w","n">>
TextNA == <<"N","/","A">>

NoProfile == <<"no profile">>

\* validators.py: the required fields of the normalised airline
RequiredFields(airline) ==
    IF airline = TextIraq
    THEN <<"surname", "name", "passport_number", "date_of_birth", "expiration_date",
           "nationality", "sex">>
    ELSE IF airline \in {TextFlydubai, TextFly_dubai, TextFz}
    THEN <<"surname", "name", "passport_number", "date_of_birth", "expiration_date",
           "issuing_country", "nationality">>
    ELSE NoProfile

\* validators.py line 45: not data.get(field) or str(data.get(field)).strip() == ""
IsMissing(d, field) == Falsy(Get(d, field)) \/ Strip(Str(Get(d, field))) = EmptyStr

\* val.split("/")
RECURSIVE SplitSlash(_, _, _)
SplitSlash(s, cur, acc) ==
    IF s = <<>> THEN Append(acc, cur)
    ELSE IF Head(s) = "/" THEN SplitSlash(Tail(s), <<>>, Append(acc, cur))
    ELSE SplitSlash(Tail(s), Append(cur, Head(s)), acc)

RECURSIVE NumberOf(_)
NumberOf(s) == IF s = <<>> THEN 0 ELSE 10 * NumberOf(SubSeq(s, 1, Len(s) - 1)) + DigitVal(s[Len(s)])

\* datetime.datetime.strptime(val, '%d/%m/%Y') does not raise ValueError:
\* one or two digits (or a space and a digit) for the day, one or two for the
\* month, four for the year, and a date of the calendar
Strptime_dmY(val) ==
    LET parts == SplitSlash(val, <<>>, <<>>) IN
    /\ Len(parts) = 3
    /\ LET dd == IF Len(parts[1]) = 2 /\ parts[1][1] = SPACE THEN Tail(parts[1]) ELSE parts[1]
           mm == parts[2]
           yy == parts[3]
       IN /\ Len(dd) \in 1..2 /\ AllDigits(dd)
          /\ Len(mm) \in 1..2 /\ AllDigits(mm)
          /\ Len(yy) = 4 /\ AllDigits(yy)
          /\ NumberOf(yy) >= 1
          /\ NumberOf(mm) \in 1..12
          /\ NumberOf(dd) \in 1..DaysInMonth(NumberOf(yy), NumberOf(mm))

DATE_FIELDS == <<"date_of_birth", "expiration_date">>

\* validators.py lines 50-58: the date is there, is not "N/A", has a slash
\* and is no DD/MM/YYYY date
IsInvalidDate(d, field) ==
    LET val == Get(d, field) IN
    Truthy(val) /\ val # TextNA /\ "/" \in Range(val) /\ ~Strptime_dmY(val)

\* validators.py lines 44-46
MissingErrors(d, fields) ==
    LET sel == SelectSeq(fields, LAMBDA f : IsMissing(d, f))
    IN [k \in DOMAIN sel |-> Error("Missing required field", sel[k], EmptyStr)]

\* validators.py lines 49-58
DateErrors(d) ==
    LET sel == SelectSeq(DATE_FIELDS, LAMBDA f : IsInvalidDate(d, f))
    IN [k \in DOMAIN sel |-> Error("Invalid date format", sel[k], Get(d, sel[k]))]

ValidateFallingThrough(d, airline) ==
    LET a == IF Truthy(airline) THEN Strip(Lower(airline)) ELSE TextUnknown
        required == IF RequiredFields(a) = NoProfile THEN <<>> ELSE RequiredFields(a)
    IN IF FalsyData(d) THEN EarlyResult(Error("No data to validate", "", EmptyStr))
       ELSE Result((IF RequiredFields(a) = NoProfile
                    THEN <<Error("Unknown airline format", "", a)>> ELSE <<>>)
                   \o MissingErrors(d, required)
                   \o DateErrors(d))

ValidateStoppingAtFirst(d, airline) ==
    LET a == IF Truthy(airline) THEN Strip(Lower(airline)) ELSE TextUnknown
        missing == IF RequiredFields(a) = NoProfile THEN <<>>
                   ELSE MissingErrors(d, RequiredFields(a))
    IN IF FalsyData(d) THEN EarlyResult(Error("No data to validate", "", EmptyStr))
       ELSE IF RequiredFields(a) = NoProfile
       THEN EarlyResult(Error("Unknown airline format", "", a))
       ELSE Result(SubSeq(missing, 1, Min(1, Len(missing)))
                   \o DateErrors(d))

\* validators.py: validate_passport_data(data, airline)
validate_passport_data(d, airline) ==
    LET a == IF Truthy(airline) THEN Strip(Lower(airline)) ELSE TextUnknown
    IN IF FalsyData(d) THEN EarlyResult(Error("No data to validate", "", EmptyStr))
       ELSE IF RequiredFields(a) = NoProfile
       THEN EarlyResult(Error("Unknown airline format", "", a))
       ELSE Result(MissingErrors(d, RequiredFields(a))
                   \o DateErrors(d))

\* validator.py: the required fields of the normalised airline
RequiredFieldsV(airline) ==
    IF airline = TextIraqi
    THEN <<"name", "surname", "date_of_birth", "sex">>
    ELSE IF airline \in {TextFlydubai, TextFly_dubai, TextFz}
    THEN <<"surname", "name", "sex", "date_of_birth", "passport_number", "nationality",
           "issuing_country", "expiration_date">>
    ELSE NoProfile

\* validator.py line 26: not val or str(val).strip() in ["", "N/A"]
IsMissingV(d, field) ==
    Falsy(Get(d, field)) \/ Strip(Str(Get(d, field))) \in {EmptyStr, TextNA}

\* validator.py: validate_passport_data(data, airline)
validator_validate_passport_data(d, airline) ==
    LET a == Strip(Lower(airline))
    IN IF FalsyData(d) THEN EarlyResult(Error("No data extracted.", "", EmptyStr))
       ELSE IF RequiredFieldsV(a) = NoProfile
       THEN EarlyResult(Error("Unknown airline", "", a))
       ELSE LET sel == SelectSeq(RequiredFieldsV(a), LAMBDA f : IsMissingV(d, f))
            IN Result([k \in DOMAIN sel |-> Error("Missing required field", sel[k], EmptyStr)])

----------------------------------------------------------------------------
(* Inputs of the validators                                                *)

FIELDS ==
    {"surname", "name", "passport_number", "date_of_birth", "expiration_date",
     "nationality", "sex", "issuing_country"}

\* a record with every field present
GoodRecord ==
    [surname |-> <<"E","R","I","K","S","S","O","N">>,
     name |-> <<"A","N","N","A">>,
     passport_number |-> <<"L","8","9","8","9","0","2","C","3">>,
     date_of_birth |-> <<"1","2","/","0","8","/","1","9","7","4">>,
     expiration_date |-> <<"1","5","/","0","4","/","2","0","1","2">>,
     nationality |-> <<"U","T","O","P","I","A">>,
     sex |-> <<"F">>,
     issuing_country |-> <<"U","T","O","P","I","A">>]

Absent == <<"absent">>
\* what a field can hold instead: no key, nothing, blanks, the sentinel, the
\* sentinel between blanks; for a date also an impossible day, a date with
\* single digits, and the six digits of the MRZ
Deviations(f) ==
    {Absent, EmptyStr, <<" ">>, TextNA, <<" ">> \o TextNA \o <<" ">>}
    \cup (IF f \in Range(DATE_FIELDS)
          THEN {<<"3","1","/","0","2","/","2","0","2","0">>, <<"1","/","1","/","2","0","2","0">>,
                <<"7","4","0","8","1","2">>}
          ELSE {})

MaxDefects == 2

Deviate(g) ==
    [f \in {x \in FIELDS : x \notin DOMAIN g \/ g[x] # Absent} |->
        IF f \in DOMAIN g THEN g[f] ELSE GoodRecord[f]]

EmptyDict == [f \in {} |-> EmptyStr]

\* the good record with up to MaxDefects fields replaced; the empty dict; None
ValRecords ==
    {Deviate(g) : g \in UNION {{h \in [S -> UNION {Deviations(f) : f \in FIELDS}] :
                                   \A f \in S : h[f] \in Deviations(f)} :
                               S \in {T \in SUBSET FIELDS : Cardinality(T) <= MaxDefects}}}
    \cup {EmptyDict, NoneData}

\* identifiers of both modules' profiles, in other case and between blanks,
\* the choices of the application's select box, and the empty identifier
ValAirlines ==
    {TextIraq, TextIraqi, <<" ","F","l","y","D","u","b","a","i"," ">>, <<"F","Z">>, TextFly_dubai,
     <<"I","r","a","q","i"," ","A","i","r","w","a","y","s">>, <<"D","e","f","a","u","l","t">>,
     EmptyStr}

NoResult == [is_valid |-> FALSE, errors |-> <<>>]

StartVal ==
    /\ val_data \in ValRecords
    /\ val_airline \in ValAirlines
    /\ val_result = NoResult
    /\ pcVal = "start"

IdleVal ==
    /\ val_data = NoneData
    /\ val_airline = EmptyStr
    /\ val_result = NoResult
    /\ pcVal = "idle"

\* is_valid, errors = validate_passport_data(data, airline) of validators.py
Validate ==
    /\ pcVal = "start"
    /\ val_result' = validate_passport_data(val_data, val_airline)
    /\ pcVal' = "validators"
    /\ UNCHANGED <<val_data, val_airline>>

\* the same call on the validate_passport_data of validator.py
ValidateV ==
    /\ pcVal = "start"
    /\ val_result' = validator_validate_passport_data(val_data, val_airline)
    /\ pcVal' = "validator"
    /\ UNCHANGED <<val_data, val_airline>>

----------------------------------------------------------------------------
(* Airline output schemas (formats.py) and main's formatting step          *)

TextMR == <<"M","R">>
TextMRS == <<"M","R","S">>
TextMale == <<"M","a","l","e">>
TextFemale == <<"F","e","m","a","l","e">>
TextAdult == <<"A","d","u","l","t">>
TextADT == <<"A","D","T">>
\* text[:3]
First3(text) == SubSeq(text, 1, Min(3, Len(text)))

\* the row format_iraqi_airways builds for one item
IraqiAirwaysRow(item) ==
    LET sex == Upper(GetOr(item, "sex", EmptyStr)) IN
    [c \in {"TYPE", "TITLE", "FIRST NAME", "LAST NAME", "DOB (DD/MM/YYYY)", "GENDER"} |->
        CASE c = "TYPE" -> TextAdult
          [] c = "TITLE" -> (IF sex = <<"M">> THEN TextMR ELSE TextMRS)
          [] c = "FIRST NAME" -> GetOr(item, "name", EmptyStr)
          [] c = "LAST NAME" -> GetOr(item, "surname", EmptyStr)
          [] c = "DOB (DD/MM/YYYY)" -> GetOr(item, "date_of_birth", EmptyStr)
          [] c = "GENDER" -> (IF sex = <<"M">> THEN TextMale ELSE TextFemale)]

format_iraqi_airways(data_list) ==
    [k \in DOMAIN data_list |-> IraqiAirwaysRow(data_list[k])]

\* the columns format_flydubai leaves empty
FLYDUBAI_EMPTY ==
    {"Passport Middle Name", "Visa Number", "Visa Type", "Visa Issue Date", "Place of Birth",
     "Visa Place of Issue", "Visa Country of Application", "Address Type", "Address Country",
     "Address Details", "Address City", "Address State", "Address Zip Code"}

FLYDUBAI_COLUMNS ==
    {"Last Name", "First Name and Middle Name", "Title", "PTC", "Gender", "Date of Birth",
     "Passport Last Name", "Passport First Name", "Passport Number", "Passport Nationality",
     "Passport Issue Country", "Passport Expiry Date"} \cup FLYDUBAI_EMPTY

\* the row format_flydubai builds for one item
FlydubaiRow(item) ==
    LET sex == Upper(GetOr(item, "sex", EmptyStr))
        first_middle == GetOr(item, "name", EmptyStr)
    IN [c \in FLYDUBAI_COLUMNS |->
        CASE c = "Last Name" -> GetOr(item, "surname", EmptyStr)
          [] c = "First Name and Middle Name" -> first_middle
          [] c = "Title" -> (IF sex = <<"M">> THEN TextMR ELSE TextMRS)
          [] c = "PTC" -> TextADT
          [] c = "Gender" -> sex
          [] c = "Date of Birth" -> GetOr(item, "date_of_birth", EmptyStr)
          [] c = "Passport Last Name" -> GetOr(item, "surname", EmptyStr)
          [] c = "Passport First Name" -> first_middle
          [] c = "Passport Number" -> GetOr(item, "passport_number", EmptyStr)
          [] c = "Passport Nationality" -> First3(GetOr(item, "nationality", EmptyStr))
          [] c = "Passport Issue Country" -> First3(GetOr(item, "issuing_country", EmptyStr))
          [] c = "Passport Expiry Date" -> GetOr(item, "expiration_date", EmptyStr)
          [] OTHER -> EmptyStr]

\* format_flydubai with the two code columns copied whole
FormatFlydubaiWholeCodes(data_list) ==
    [k \in DOMAIN data_list |->
        [FlydubaiRow(data_list[k]) EXCEPT
            !["Passport Nationality"] = GetOr(data_list[k], "nationality", EmptyStr),
            !["Passport Issue Country"] = GetOr(data_list[k], "issuing_country", EmptyStr)]]

format_flydubai(data_list) ==
    [k \in DOMAIN data_list |-> FlydubaiRow(data_list[k])]

\* the cell pandas puts where a dict has no such key
NaN == <<"NaN">>
\* pd.DataFrame(list of dicts): one row per dict, one column per key of any
DataFrame(data_list) ==
    LET columns == UNION {DOMAIN data_list[k] : k \in DOMAIN data_list} IN
    [k \in DOMAIN data_list |->
        [c \in columns |-> IF c \in DOMAIN data_list[k] THEN data_list[k][c] ELSE NaN]]

TextIraqiAirwaysChoice == <<"I","r","a","q","i"," ","A","i","r","w","a","y","s">>
TextFlydubaiChoice == <<"F","l","y","d","u","b","a","i">>
TextDefaultChoice == <<"D","e","f","a","u","l","t">>
\* the options of the select box
AIRLINE_CHOICES == {TextDefaultChoice, TextIraqiAirwaysChoice, TextFlydubaiChoice}

----------------------------------------------------------------------------
(* Inputs of the formatting step                                           *)

\* what a field of a collected record can hold instead of the good value
FormatDeviations(f) ==
    CASE f = "sex" -> {Absent, EmptyStr, <<"M">>, <<"m">>, <<"X">>, TextNA}
      [] f = "nationality" -> {Absent, EmptyStr, <<"U","T">>}
      [] f = "issuing_country" -> {Absent, <<"D">>}
      [] f = "passport_number" -> {Absent}
      [] f = "name" -> {Absent}
      [] f = "date_of_birth" -> {Absent, <<"7","4","0","8","1","2">>}
      [] OTHER -> {}

\* a record as get_data builds it and the loop tags it: the issuing country
\* is under the key "country"
PipelineRecord ==
    [f \in (FIELDS \ {"issuing_country"}) \cup {"country", "source_file"} |->
        IF f = "country" THEN GoodRecord.issuing_country
        ELSE IF f = "source_file" THEN <<"a",".","p","n","g">>
        ELSE GoodRecord[f]]

\* the record get_data returns for the two MRZ lines of the specimen passport
\* when the visual zone gives no name, tagged by the loop
DecodedRecord ==
    WithSource(BuildData([line1 |-> ExLine1, line2 |-> ExLine2, mrz |-> NoneMRZ], None),
               <<"a",".","p","n","g">>)

FormatRecords ==
    {GoodRecord, PipelineRecord, DecodedRecord}
    \cup UNION {{Deviate([x \in {f} |-> v]) : v \in FormatDeviations(f)} : f \in FIELDS}

MaxRows == 2

NoDf == <<>>

StartFormat ==
    /\ fmt_airline \in AIRLINE_CHOICES
    /\ fmt_results \in SeqsUpTo(FormatRecords, MaxRows)
    /\ df = NoDf
    /\ pcFmt = "start"

IdleFormat ==
    /\ fmt_airline = EmptyStr
    /\ fmt_results = <<>>
    /\ df = NoDf
    /\ pcFmt = "idle"

\* "if not all_results": the warning and the return
WarnNoData ==
    /\ pcFmt = "start"
    /\ fmt_results = <<>>
    /\ pcFmt' = "no data"
    /\ UNCHANGED <<fmt_airline, fmt_results, df>>

\* "Format data based on airline selection"
FormatData ==
    /\ pcFmt = "start"
    /\ fmt_results # <<>>
    /\ df' = IF fmt_airline = TextIraqiAirwaysChoice THEN format_iraqi_airways(fmt_results)
             ELSE IF fmt_airline = TextFlydubaiChoice THEN format_flydubai(fmt_results)
             ELSE DataFrame(fmt_results)
    /\ pcFmt' = "formatted"
    /\ UNCHANGED <<fmt_airline, fmt_results>>

----------------------------------------------------------------------------
(* Inputs of the field normalizers                                         *)

MaxSexLen == 2
MaxCodeLen == 3

\* sex codes as an MRZ or a detector gives them: the two letters in either
\* case, the misread digit, other characters, longer texts, nothing, None
SexInputs == SeqsUpTo({"M", "F", "0", "m", "f", "x", "<"}, MaxSexLen) \cup {None}

\* country codes: keys of the table in either case, other codes, shorter
\* and longer texts, nothing, None
CodeInputs ==
    SeqsUpTo({"U", "T", "O", "u", "x"}, MaxCodeLen)
    \cup {None, <<"I","R","Q">>, <<"i","r","q">>, <<"D","<","<">>, TextUTOPIA}

NoOut == <<"no result">>

StartUtil ==
    /\ \/ pcUtil = "sex" /\ util_in \in SexInputs
       \/ pcUtil = "country" /\ util_in \in CodeInputs
       \/ pcUtil = "name" /\ util_in \in NameInputs
    /\ util_out = NoOut

IdleUtil ==
    /\ util_in = EmptyStr
    /\ util_out = NoOut
    /\ pcUtil = "idle"

\* get_sex(code)
GetSex ==
    /\ pcUtil = "sex"
    /\ util_out' = get_sex(util_in)
    /\ pcUtil' = "get_sex"
    /\ UNCHANGED util_in

\* get_country_name(country_code)
GetCountryName ==
    /\ pcUtil = "country"
    /\ util_out' = get_country_name(util_in)
    /\ pcUtil' = "get_country_name"
    /\ UNCHANGED util_in

\* an MRZ object whose two code attributes hold the code
MRZWithCode(code) ==
    [DetectorMRZ([det_sex |-> <<"F">>], 0) EXCEPT !.country = code, !.nationality = code]

\* the record get_data builds from an MRZ object holding the code
BuildRecord ==
    /\ pcUtil = "country"
    /\ util_out' = BuildData([line1 |-> None, line2 |-> None, mrz |-> MRZWithCode(util_in)], None)
    /\ pcUtil' = "get_data"
    /\ UNCHANGED util_in

----------------------------------------------------------------------------
(* Specifications                                                          *)

InitMRZ == StartMRZ /\ IdleName /\ IdleAcq /\ IdleBatch /\ IdleVal /\ IdleFormat /\ IdleUtil
NextMRZ == Construct /\ UNCHANGED <<nameVars, acqVars, batchVars, valVars, fmtVars, utilVars>>
\* the decoder applied to every modelled pair of inputs
SpecMRZ == InitMRZ /\ [][NextMRZ]_vars

InitName == StartName /\ IdleMRZ /\ IdleAcq /\ IdleBatch /\ IdleVal /\ IdleFormat /\ IdleUtil
NextName ==
    \/ CleanName /\ UNCHANGED <<mrzVars, acqVars, batchVars, valVars, fmtVars, utilVars>>
    \/ ReCleanName /\ UNCHANGED <<mrzVars, acqVars, batchVars, valVars, fmtVars, utilVars>>
\* the name cleaner applied to every modelled input, and again to its result
SpecName == InitName /\ [][NextName]_vars

Init ==
    /\ uploaded_files \in Batches
    /\ file_i = 1
    /\ pc = "loop"
    /\ all_results = <<>>
    /\ outcomes = <<>>
    /\ IdleAcq
    /\ IdleMRZ
    /\ IdleName
    /\ IdleVal
    /\ IdleFormat
    /\ IdleUtil

Next ==
    \/ SkipTooLarge /\ UNCHANGED <<mrzVars, nameVars, valVars, fmtVars, utilVars>>
    \/ ProcessPdf /\ UNCHANGED <<mrzVars, nameVars, valVars, fmtVars, utilVars>>
    \/ ProcessImage /\ UNCHANGED <<mrzVars, nameVars, valVars, fmtVars, utilVars>>
    \/ Finish /\ UNCHANGED <<mrzVars, nameVars, valVars, fmtVars, utilVars>>
\* the loop of main over every modelled batch of uploaded files
Spec == Init /\ [][Next]_vars

InitVal == StartVal /\ IdleMRZ /\ IdleName /\ IdleAcq /\ IdleBatch /\ IdleFormat /\ IdleUtil
NextVal ==
    \/ Validate /\ UNCHANGED <<mrzVars, nameVars, acqVars, batchVars, fmtVars, utilVars>>
    \/ ValidateV /\ UNCHANGED <<mrzVars, nameVars, acqVars, batchVars, fmtVars, utilVars>>
\* both validators applied to every modelled record and airline identifier
SpecVal == InitVal /\ [][NextVal]_vars

\* clean_name_field(text)
CleanNameField ==
    /\ pcUtil = "name"
    /\ util_out' = clean_name_field(util_in)
    /\ pcUtil' = "clean_name_field"
    /\ UNCHANGED util_in

\* an MRZ object whose surname holds the text
MRZWithSurname(text) == [DetectorMRZ([det_sex |-> <<"F">>], 0) EXCEPT !.surname = text]

\* the record get_data builds from an MRZ object whose surname holds the
\* text, when the visual zone gave the same text as the given name
BuildNameFields ==
    /\ pcUtil = "name"
    /\ util_out' = BuildData([line1 |-> None, line2 |-> None, mrz |-> MRZWithSurname(util_in)],
                             util_in)
    /\ pcUtil' = "get_data names"
    /\ UNCHANGED util_in

InitFormat == StartFormat /\ IdleMRZ /\ IdleName /\ IdleAcq /\ IdleBatch /\ IdleVal /\ IdleUtil
NextFormat ==
    \/ WarnNoData /\ UNCHANGED <<mrzVars, nameVars, acqVars, batchVars, valVars, utilVars>>
    \/ FormatData /\ UNCHANGED <<mrzVars, nameVars, acqVars, batchVars, valVars, utilVars>>
\* main's formatting step on every modelled list of collected records
SpecFormat == InitFormat /\ [][NextFormat]_vars

InitUtil == StartUtil /\ IdleMRZ /\ IdleName /\ IdleAcq /\ IdleBatch /\ IdleVal /\ IdleFormat
NextUtil ==
    \/ GetSex /\ UNCHANGED <<mrzVars, nameVars, acqVars, batchVars, valVars, fmtVars>>
    \/ GetCountryName /\ UNCHANGED <<mrzVars, nameVars, acqVars, batchVars, valVars, fmtVars>>
    \/ BuildRecord /\ UNCHANGED <<mrzVars, nameVars, acqVars, batchVars, valVars, fmtVars>>
    \/ CleanNameField /\ UNCHANGED <<mrzVars, nameVars, acqVars, batchVars, valVars, fmtVars>>
    \/ BuildNameFields /\ UNCHANGED <<mrzVars, nameVars, acqVars, batchVars, valVars, fmtVars>>
\* the sex, country and name normalizers applied to every modelled input
SpecUtil == InitUtil /\ [][NextUtil]_vars

----------------------------------------------------------------------------
(* Claims about the decoder                                                *)

IsTD3Line(l) == l # None /\ Len(l) = TD3_LEN /\ Range(l) \subseteq MRZAlphabet
Unparseable(l) == l = None \/ Len(l) < TD3_LEN

\* s without the characters c at its two ends, by positions
TrimOf(s, c) ==
    LET keep == {i \in DOMAIN s : s[i] # c} IN
    IF keep = {} THEN <<>>
    ELSE SubSeq(s, CHOOSE i \in keep : \A j \in keep : i <= j,
                   CHOOSE i \in keep : \A j \in keep : i >= j)
Spaced(s) == [i \in DOMAIN s |-> IF s[i] = FILLER THEN SPACE ELSE s[i]]
NameText(s) == TrimOf(Spaced(s), SPACE)
IsSepAt(s, k) == k \in 1..(Len(s) - 1) /\ s[k] = FILLER /\ s[k + 1] = FILLER
IsFirstSep(s, k) == IsSepAt(s, k) /\ \A j \in 1..(k - 1) : ~IsSepAt(s, j)
\* region split at its first '<<' into surname sur and given names giv
SplitAtFirstSep(region, sur, giv) ==
    \/ \E k \in 1..Len(region) :
          /\ IsFirstSep(region, k)
          /\ sur = NameText(SubSeq(region, 1, k - 1))
          /\ giv = NameText(SubSeq(region, k + 2, Len(region)))
    \/ /\ \A k \in 1..Len(region) : ~IsSepAt(region, k)
       /\ sur = NameText(region)
       /\ giv = EmptyStr

\* C1: for every pair of 44-character lines over {A-Z, 0-9, <} the decoder takes
\* type from line1[0:2], issuing country from line1[2:5], passport number from
\* line2[0:9], nationality from line2[10:13], date of birth from line2[13:19],
\* sex from line2[20], expiration date from line2[21:27] and personal number
\* from line2[28:42], filler removed from the code and number fields; the ICAO
\* specimen pair decodes to ERIKSSON / ANNA MARIA / UTO / L898902C3 / UTO / F /
\* 740812 / 120415.
C1_FieldOffsets ==
    (pcMRZ = "built" /\ IsTD3Line(line1In) /\ IsTD3Line(line2In)) =>
        /\ mrz_obj.type = SelectSeq(SubSeq(line1In, 1, 2), LAMBDA c : c # "<")
        /\ mrz_obj.country = SelectSeq(SubSeq(line1In, 3, 5), LAMBDA c : c # "<")
        /\ mrz_obj.number = SelectSeq(SubSeq(line2In, 1, 9), LAMBDA c : c # "<")
        /\ mrz_obj.nationality = SelectSeq(SubSeq(line2In, 11, 13), LAMBDA c : c # "<")
        /\ mrz_obj.date_of_birth = SubSeq(line2In, 14, 19)
        /\ mrz_obj.sex = SubSeq(line2In, 21, 21)
        /\ mrz_obj.expiration_date = SubSeq(line2In, 22, 27)
        /\ mrz_obj.personal_number = SelectSeq(SubSeq(line2In, 29, 42), LAMBDA c : c # "<")
        /\ (line1In = ExLine1 /\ line2In = ExLine2) =>
              /\ mrz_obj.surname = <<"E","R","I","K","S","S","O","N">>
              /\ mrz_obj.names = <<"A","N","N","A"," ","M","A","R","I","A">>
              /\ mrz_obj.country = <<"U","T","O">>
              /\ mrz_obj.number = <<"L","8","9","8","9","0","2","C","3">>
              /\ mrz_obj.nationality = <<"U","T","O">>
              /\ mrz_obj.sex = <<"F">>
              /\ mrz_obj.date_of_birth = <<"7","4","0","8","1","2">>
              /\ mrz_obj.expiration_date = <<"1","2","0","4","1","5">>

C1_Witness ==
    /\ pcMRZ = "built" /\ line1In = ExLine1 /\ line2In = ExLine2
    /\ mrz_obj.sex = <<"F">> /\ mrz_obj.surname = <<"E","R","I","K","S","S","O","N">>

\* C2 as claimed: the name region line1[5:44] is split at its FIRST '<<'; the
\* text before it is the surname, the text after it the given names, filler
\* turned into spaces; without '<<' the whole region is the surname.
C2_SplitRegionAtFirstSep ==
    (pcMRZ = "built" /\ line1In # None /\ Len(line1In) = TD3_LEN) =>
        SplitAtFirstSep(SubSeq(line1In, 6, TD3_LEN), mrz_obj.surname, mrz_obj.names)

\* C2 as amended: the split is made in the name region with the filler at its
\* two ends removed first: the text before the first '<<' of that stripped
\* region is the surname and the text after it the given names, each with
\* every filler turned into a space and the spaces at its ends trimmed; when
\* the stripped region holds no '<<' it is the surname and the given names
\* are empty.
C2_SplitStrippedRegion ==
    (pcMRZ = "built" /\ line1In # None /\ Len(line1In) = TD3_LEN) =>
        SplitAtFirstSep(TrimOf(SubSeq(line1In, 6, TD3_LEN), FILLER),
                        mrz_obj.surname, mrz_obj.names)

\* a region that begins with '<<' and holds a second separator further on
C2_Witness ==
    /\ pcMRZ = "built" /\ line1In # None /\ Len(line1In) = TD3_LEN
    /\ SubSeq(line1In, 6, 11) = <<"<","<","A","<","<","B">>
    /\ mrz_obj.surname = <<"A">> /\ mrz_obj.names = <<"B">>

\* C3: the constructor never raises, whatever the two inputs (absent, empty,
\* short, long): an object is always returned, and the fields of a line that
\* is absent or shorter than 44 characters are the empty string.
C3_NeverRaises ==
    (pcMRZ # "new") =>
        /\ pcMRZ = "built"
        /\ mrz_obj # NoObj
        /\ Unparseable(line1In) =>
              /\ mrz_obj.type = EmptyStr /\ mrz_obj.country = EmptyStr
              /\ mrz_obj.surname = EmptyStr /\ mrz_obj.names = EmptyStr
        /\ Unparseable(line2In) =>
              /\ mrz_obj.number = EmptyStr /\ mrz_obj.nationality = EmptyStr
              /\ mrz_obj.date_of_birth = EmptyStr /\ mrz_obj.sex = EmptyStr
              /\ mrz_obj.expiration_date = EmptyStr /\ mrz_obj.personal_number = EmptyStr

\* an absent line 2 after a parseable line 1: the object is still built
C3_Witness ==
    /\ pcMRZ = "built" /\ line1In = ExLine1 /\ line2In = None
    /\ mrz_obj.country = <<"U","T","O">> /\ mrz_obj.sex = EmptyStr

----------------------------------------------------------------------------
(* Claims about the name cleaner                                           *)

\* the tokens of the input, upper-cased and filler-expanded, and of the output
InWords == IF Falsy(nameIn) THEN <<>> ELSE Split(ExpandFiller(nameIn))
OutWords == Split(cleanedName)
\* token i of the input is in the output
Kept(i) == i <= Len(OutWords) /\ SubSeq(OutWords, 1, i) = SubSeq(InWords, 1, i)
KOnlyShort(w) == Len(w) \in 1..2 /\ Range(w) = {"K"}
NextIsKOnlyShort(i) == i < Len(InWords) /\ KOnlyShort(InWords[i + 1])
ExamplesC4 ==
    /\ nameIn = NameIBRAHEEM_K_K => cleanedName = NameIBRAHEEM
    /\ nameIn = NameIBRAHEEM_K => cleanedName = NameIBRAHEEM_K

\* C4 as claimed: "IBRAHEEM K K" gives "IBRAHEEM", "IBRAHEEM K" is unchanged,
\* and every K-only token of length <= 2 is kept exactly when the token after
\* it is absent or is not itself such a token.
C4_ShortNoiseKeptIffIsolated ==
    (pcName = "cleaned") =>
        /\ ExamplesC4
        /\ \A i \in DOMAIN InWords :
              KOnlyShort(InWords[i]) => (Kept(i) <=> ~NextIsKOnlyShort(i))

\* C4 as amended: the two examples hold, and every K-only token of length <= 2
\* that the scan reaches (all tokens before it were kept) is kept exactly
\* when the token after it is absent or is not itself such a token.
C4_ReachedShortNoiseKeptIffIsolated ==
    (pcName = "cleaned") =>
        /\ ExamplesC4
        /\ \A i \in DOMAIN InWords :
              (KOnlyShort(InWords[i]) /\ (i = 1 \/ Kept(i - 1))) =>
                  (Kept(i) <=> ~NextIsKOnlyShort(i))

\* the run of two K tokens is reached and cut
C4_Witness ==
    /\ pcName = "cleaned" /\ nameIn = NameIBRAHEEM_K_K /\ cleanedName = NameIBRAHEEM
    /\ KOnlyShort(InWords[2]) /\ Kept(1) /\ ~Kept(2)

\* more than 70% of the characters of the token are K
MostlyNoise(w) == 10 * Cardinality({p \in DOMAIN w : w[p] = "K"}) > 7 * Len(w)
ExactlySeventy(w) == 10 * Cardinality({p \in DOMAIN w : w[p] = "K"}) = 7 * Len(w)
IsLong(w) == Len(w) >= 3
OutIsPrefix == Len(OutWords) <= Len(InWords) /\ OutWords = SubSeq(InWords, 1, Len(OutWords))
Reached(i) == i = 1 \/ Kept(i - 1)
TextSeventy == <<"A","L","I"," ">> \o Rep("K", 7) \o <<"A","B","C">> \o <<" ","X">>

\* C23 as stated: the output's tokens are a prefix of the input's, the cut
\* is at the first token of length >= 3 with more than 70% K, and every
\* token with exactly 70% K is kept.
C23_CutAtFirstLongNoiseToken ==
    (pcName = "cleaned") =>
        /\ OutIsPrefix
        /\ \A i \in DOMAIN InWords :
              (/\ IsLong(InWords[i]) /\ MostlyNoise(InWords[i])
               /\ \A j \in 1..(i - 1) : ~(IsLong(InWords[j]) /\ MostlyNoise(InWords[j])))
                  => Len(OutWords) = i - 1
        /\ \A i \in DOMAIN InWords :
              (IsLong(InWords[i]) /\ ExactlySeventy(InWords[i])) => Kept(i)

\* C23: the output's tokens are a prefix of the input's; a token of length
\* >= 3 that the scan reaches (all tokens before it were kept) is dropped,
\* with every token after it, exactly when more than 70% of its characters
\* are K, so a reached token with exactly 70% is kept.
C23_ReachedLongNoiseTokenCuts ==
    (pcName = "cleaned") =>
        /\ OutIsPrefix
        /\ \A i \in DOMAIN InWords :
              (IsLong(InWords[i]) /\ Reached(i)) => (Kept(i) <=> ~MostlyNoise(InWords[i]))
        /\ \A i \in DOMAIN InWords : ~Kept(i) => Len(OutWords) < i

\* the token with 7 K in 10 characters is reached and kept, with the token
\* after it
C23_Witness ==
    /\ pcName = "cleaned"
    /\ nameIn = TextSeventy
    /\ Len(InWords[2]) = 10 /\ ExactlySeventy(InWords[2])
    /\ Kept(2) /\ Kept(3)
    /\ cleanedName = TextSeventy

\* C5: cleaning a cleaned name returns it unchanged, for every input.
C5_Idempotent ==
    (pcName = "recleaned") => recleanedName = cleanedName

\* a name the first cleaning changed, cleaned again
C5_Witness ==
    /\ pcName = "recleaned" /\ nameIn = NameIBRAHEEM_K_K
    /\ cleanedName = NameIBRAHEEM /\ recleanedName = NameIBRAHEEM

----------------------------------------------------------------------------
(* Claims about the acquisition                                            *)

LastImage == uploaded_files[img_path].img
IsRotatedDetect(c) == c.op = "read_mrz" /\ c.angle # 0
IsPageRead(c) == c.op = "readtext_page"
\* the detector calls of the latest acquisition on rotated images, in order
RotatedCalls == SelectSeq(calls, IsRotatedDetect)
RetryFaultSites == {f \in FaultSites : f[1] \in {"open", "save"} \/ (f[1] = "read_mrz" /\ f[2] # 0)}
DetectorFailedUpright == calls # <<>> /\ calls[1] = Call("read_mrz", 0, "none")
DetectorFoundUpright == calls # <<>> /\ calls[1] = Call("read_mrz", 0, "found")

IsUprightDetect(c) == c.op = "read_mrz" /\ c.angle = 0
Raised(c) == c.out = "raise"
C24_BoundedCallsAlwaysTriple ==
    img_path # 0 =>
        /\ DOMAIN line_pair = {"line1", "line2", "mrz"}
        /\ Len(SelectSeq(calls, IsUprightDetect)) <= 1
        /\ Len(RotatedCalls) <= 3
        /\ Len(SelectSeq(calls, IsPageRead)) <= 1
        /\ \A j \in DOMAIN calls : Raised(calls[j]) =>
               IF IsRotatedDetect(calls[j])
               THEN j + 1 = Len(calls) /\ IsPageRead(calls[j + 1])
               ELSE j = Len(calls) /\ line_pair = NoneTriple

\* the longest acquisition: the detector finds nothing on the image and its
\* three rotations, and the full-page OCR then raises
C24_Witness ==
    /\ img_path # 0
    /\ LastImage.faults = {<<"readtext", 0>>}
    /\ calls = <<Call("read_mrz", 0, "none"), Call("read_mrz", 90, "none"),
                 Call("read_mrz", 180, "none"), Call("read_mrz", 270, "none"),
                 Call("readtext_page", 0, "raise")>>
    /\ line_pair = NoneTriple

\* C7: when the detector succeeds on the unrotated image, no rotated
\* detection and no full-page OCR is performed for that image, and get_data
\* returns a record.
C7_UprightSuccessReconciles ==
    (img_path # 0 /\ DetectorFoundUpright) =>
        /\ RotatedCalls = <<>>
        /\ ~(\E j \in DOMAIN calls : IsPageRead(calls[j]))
        /\ data # NoneData

\* C8: the full-page OCR runs on the unrotated image, and only after the
\* detector was tried and failed on the unrotated image and on each of the
\* rotations 90, 180 and 270.
C8_FallbackOnlyAfterAllRotations ==
    img_path # 0 =>
        \A j \in DOMAIN calls : IsPageRead(calls[j]) =>
            /\ calls[j].angle = 0
            /\ \E k \in 1..(j - 1) : calls[k] = Call("read_mrz", 0, "none")
            /\ \A a \in Range(ROTATION_ANGLES) :
                   \E k \in 1..(j - 1) : calls[k] = Call("read_mrz", a, "none")

FallbackRan == img_path # 0 /\ calls # <<>> /\ IsPageRead(calls[Len(calls)])

\* C9: when the full-page fallback ran, two or more candidate lines give a
\* pair of adjacent candidates, the FallbackMRZ decoded from that pair, and a
\* record from get_data that carries the pair and the decoded fields; fewer
\* than two candidates give no lines, no MRZ object, and None from get_data.
C9_FallbackOutcome ==
    FallbackRan =>
        IF Len(potential_lines) >= 2
        THEN /\ \E k \in 1..(Len(potential_lines) - 1) :
                    /\ line_pair.line1 = potential_lines[k]
                    /\ line_pair.line2 = potential_lines[k + 1]
             /\ line_pair.mrz = FallbackMRZ(line_pair.line1, line_pair.line2).obj
             /\ data # NoneData
             /\ data.kind = "record"
             /\ data.mrz_full_string = line_pair.line1 \o line_pair.line2
             /\ data.passport_number = clean_string(line_pair.mrz.number)
             /\ data.surname = clean_name_field(line_pair.mrz.surname)
        ELSE /\ line_pair = NoneTriple
             /\ data = NoneData

\* three candidates, the pair re-anchored at the line that starts with P<
C9_Witness ==
    /\ FallbackRan
    /\ Len(potential_lines) = 3
    /\ line_pair.line1 = ExLine1
    /\ line_pair.line2 = ExLine2
    /\ data # NoneData
    /\ data.passport_number = <<"L","8","9","8","9","0","2","C","3">>

----------------------------------------------------------------------------
(* Claims about the batch loop                                             *)

SourceFiles == [k \in DOMAIN all_results |-> all_results[k].source_file]

RECURSIVE PositionsWhere(_, _)
\* the positions up to n that satisfy ok, in increasing order
PositionsWhere(ok, n) ==
    IF n = 0 THEN <<>>
    ELSE PositionsWhere(ok, n - 1) \o (IF ok[n] THEN <<n>> ELSE <<>>)

\* files known to fail: nothing found on the page, the detector raises
FailingImages == {BlankImage, RaisingImage}
SucceedingImages == {UprightImage, PageOnlyImage}
IsFailingFile(f) == f.kind = "image" /\ f.size <= MAX_FILE_SIZE /\ f.img \in FailingImages
IsSucceedingFile(f) == f.kind = "image" /\ f.size <= MAX_FILE_SIZE /\ f.img \in SucceedingImages

\* C10: every file before the loop position has been handled, whatever the
\* files before it did; the records collected are those of the handled files
\* that gave data, one each, in input order; a file that finds no MRZ or
\* raises during acquisition gives none, a file that decodes gives one; and
\* the loop ends only after the last file.
C10_FailureIsolatedOrderKept ==
    LET n == file_i - 1 IN
    /\ Len(outcomes) = n
    /\ n <= Len(uploaded_files)
    /\ SourceFiles = PositionsWhere([k \in 1..n |-> outcomes[k] = "ok"], n)
    /\ \A k \in 1..n : IsFailingFile(uploaded_files[k]) => outcomes[k] = "no_data"
    /\ \A k \in 1..n : IsSucceedingFile(uploaded_files[k]) => outcomes[k] = "ok"
    /\ \A k \in DOMAIN all_results : all_results[k].kind = "record"
    /\ pc = "done" => n = Len(uploaded_files)

\* five files, the third raises during acquisition: the records of files
\* 1, 2, 4 and 5
C10_Witness ==
    /\ Len(uploaded_files) >= 5
    /\ file_i = 6
    /\ uploaded_files[3].img = RaisingImage
    /\ \A k \in {1, 2, 4, 5} : IsSucceedingFile(uploaded_files[k])
    /\ SourceFiles = <<1, 2, 4, 5>>

----------------------------------------------------------------------------
(* Claims about the validators                                             *)

Validated == pcVal \in {"validators", "validator"}
TextIraqiAirways == <<"I","r","a","q","i"," ","A","i","r","w","a","y","s">>
\* the modelled identifiers that name a profile of the module that ran
NamesProfile ==
    val_airline \in {<<" ","F","l","y","D","u","b","a","i"," ">>, <<"F","Z">>, TextFly_dubai}
                    \cup (IF pcVal = "validators" THEN {TextIraq} ELSE {TextIraqi})
\* the required fields of that profile, in its order
Profile ==
    IF pcVal = "validators" THEN RequiredFields(Strip(Lower(val_airline)))
    ELSE RequiredFieldsV(Strip(Lower(val_airline)))
ErrorFields(msg) ==
    LET sel == SelectSeq(val_result.errors, LAMBDA e : e.msg = msg)
    IN [k \in DOMAIN sel |-> sel[k].field]
IsBlank(v) == \A k \in DOMAIN v : v[k] = SPACE
DefectiveFields == {f \in FIELDS : f \notin DOMAIN val_data \/ val_data[f] # GoodRecord[f]}

\* C11: with an identifier that names no profile, either validator returns
\* not valid with exactly one error, which is no error about a field, whatever
\* the record holds.
C11_UnknownAirlineOneError ==
    (Validated /\ ~NamesProfile) =>
        /\ val_result.is_valid = FALSE
        /\ Len(val_result.errors) = 1
        /\ val_result.errors[1].field = ""
        /\ val_result.errors[1].msg \notin {"Missing required field", "Invalid date format"}

\* the select box's "Iraqi Airways" names no profile; the record lacks two
\* fields and has an impossible date
C11_Witness ==
    /\ pcVal = "validators"
    /\ val_airline = TextIraqiAirways
    /\ "sex" \notin DOMAIN val_data
    /\ "date_of_birth" \in DOMAIN val_data
    /\ val_data.date_of_birth = <<"3","1","/","0","2","/","2","0","2","0">>
    /\ Len(val_result.errors) = 1

\* what the module that ran counts as a missing field
CountsAsMissing(f) ==
    \/ f \notin DOMAIN val_data
    \/ IsBlank(val_data[f])
    \/ pcVal = "validator" /\ val_data[f] \in {TextNA, <<" ">> \o TextNA \o <<" ">>}
MissingOfProfile == SelectSeq(Profile, CountsAsMissing)

\* C12 as stated: for every record and known profile the errors are exactly
\* one per missing required field, naming it, in the profile's order, and
\* the result is valid exactly when there is no error.
C12_OneErrorPerMissingField ==
    (Validated /\ NamesProfile) =>
        /\ Len(val_result.errors) = Len(MissingOfProfile)
        /\ ErrorFields("Missing required field") = MissingOfProfile
        /\ val_result.is_valid = (val_result.errors = <<>>)

HasInvalidDate(f) ==
    /\ f \in DOMAIN val_data
    /\ val_data[f] \in {<<"3","1","/","0","2","/","2","0","2","0">>, <<" ">> \o TextNA \o <<" ">>}

\* C12 as amended: for every record that is not empty and every known
\* profile, the errors are one "Missing required field" per missing required
\* field, in the profile's order and without stopping at the first, followed
\* in validators.py by one "Invalid date format" per date field that holds a
\* text with a slash that is neither "N/A" nor a DD/MM/YYYY date; an empty
\* record gives the single error "no data"; the result is valid exactly when
\* there is no error.
C12_MissingThenInvalidDates ==
    (Validated /\ NamesProfile) =>
        /\ val_result.is_valid = (val_result.errors = <<>>)
        /\ IF DOMAIN val_data = {} \/ val_data = NoneData
           THEN /\ Len(val_result.errors) = 1
                /\ val_result.errors[1].field = ""
           ELSE LET invalid == IF pcVal = "validators"
                               THEN SelectSeq(DATE_FIELDS, HasInvalidDate) ELSE <<>>
                IN /\ ErrorFields("Missing required field") = MissingOfProfile
                   /\ ErrorFields("Invalid date format") = invalid
                   /\ \A k \in DOMAIN val_result.errors :
                          val_result.errors[k].msg =
                              IF k <= Len(MissingOfProfile) THEN "Missing required field"
                              ELSE "Invalid date format"
                   /\ Len(val_result.errors) = Len(MissingOfProfile) + Len(invalid)

\* profile iraq, nationality absent and sex empty: two errors, in that order
C12_Witness ==
    /\ pcVal = "validators"
    /\ val_airline = TextIraq
    /\ DefectiveFields = {"nationality", "sex"}
    /\ ErrorFields("Missing required field") = <<"nationality", "sex">>
    /\ val_result.is_valid = FALSE

\* what the validator that did not run returns for the same call
OtherResult ==
    IF pcVal = "validators" THEN validator_validate_passport_data(val_data, val_airline)
    ELSE validate_passport_data(val_data, val_airline)
MissingFields(result) ==
    {result.errors[k].field : k \in {j \in DOMAIN result.errors :
                                         result.errors[j].msg = "Missing required field"}}

\* C26: for every record and every airline identifier the validators of
\* validator.py and validators.py return the same validity verdict and flag
\* the same set of missing required fields.
C26_ValidatorsAgree ==
    Validated =>
        /\ OtherResult.is_valid = val_result.is_valid
        /\ MissingFields(OtherResult) = MissingFields(val_result)

\* C13: a required field is reported missing exactly when its key is absent
\* or its value is empty, whitespace-only or equal to "N/A".
C13_MissingIffAbsentBlankOrSentinel ==
    (Validated /\ NamesProfile /\ DOMAIN val_data # {} /\ val_data # NoneData) =>
        \A k \in DOMAIN Profile :
            (Profile[k] \in Range(ErrorFields("Missing required field")))
            <=> \/ Profile[k] \notin DOMAIN val_data
                \/ IsBlank(val_data[Profile[k]])
                \/ val_data[Profile[k]] = TextNA

----------------------------------------------------------------------------
(* Claims about the airline output schemas                                 *)

Formatted == pcFmt = "formatted"
IsSchema == fmt_airline \in {TextIraqiAirwaysChoice, TextFlydubaiChoice}
\* the field of the k-th collected record, the empty text when it has none
Source(k, f) == IF f \in DOMAIN fmt_results[k] THEN fmt_results[k][f] ELSE EmptyStr
\* cell holds the first three characters of text
IsFirst3Of(cell, text) ==
    /\ Len(cell) = Min(3, Len(text))
    /\ \A p \in 1..Len(cell) : cell[p] = text[p]
TitleOf(k) == IF Upper(Source(k, "sex")) = <<"M">> THEN TextMR ELSE TextMRS

\* the profile of validators.py that names the airline of a schema
SchemaProfile == IF fmt_airline = TextIraqiAirwaysChoice THEN TextIraq ELSE TextFlydubai
IsValidRecord(k) == validate_passport_data(fmt_results[k], SchemaProfile).is_valid

\* C14: the projection into an airline schema gives one row per collected
\* record, valid or not, in input order, and each row carries the validity
\* of its record: at the least, two records with the same row have the same
\* validity.
C14_OneRowEachWithValidityFlag ==
    (Formatted /\ IsSchema) =>
        /\ Len(df) = Len(fmt_results)
        /\ \A k \in DOMAIN df :
              df[k] = IF fmt_airline = TextIraqiAirwaysChoice
                      THEN IraqiAirwaysRow(fmt_results[k])
                      ELSE FlydubaiRow(fmt_results[k])
        /\ \A j, k \in DOMAIN df : df[j] = df[k] => (IsValidRecord(j) <=> IsValidRecord(k))

\* C15: every projected column is its declared transform of the named field
\* of the record at the same position: names, passport number and dates are
\* copied, the title is MR when the upper-cased sex is M and MRS otherwise,
\* Flydubai's nationality and issue country are the first three characters
\* of nationality and issuing_country, the passenger type is Adult or ADT,
\* and the visa and address columns are empty.
C15_ColumnsAreDeclaredTransforms ==
    (Formatted /\ IsSchema) =>
        /\ Len(df) = Len(fmt_results)
        /\ fmt_airline = TextIraqiAirwaysChoice =>
              \A k \in DOMAIN df :
                  /\ df[k]["TYPE"] = TextAdult
                  /\ df[k]["TITLE"] = TitleOf(k)
                  /\ df[k]["FIRST NAME"] = Source(k, "name")
                  /\ df[k]["LAST NAME"] = Source(k, "surname")
                  /\ df[k]["DOB (DD/MM/YYYY)"] = Source(k, "date_of_birth")
        /\ fmt_airline = TextFlydubaiChoice =>
              \A k \in DOMAIN df :
                  /\ df[k]["PTC"] = TextADT
                  /\ df[k]["Title"] = TitleOf(k)
                  /\ df[k]["Last Name"] = Source(k, "surname")
                  /\ df[k]["Passport Last Name"] = Source(k, "surname")
                  /\ df[k]["First Name and Middle Name"] = Source(k, "name")
                  /\ df[k]["Passport First Name"] = Source(k, "name")
                  /\ df[k]["Date of Birth"] = Source(k, "date_of_birth")
                  /\ df[k]["Passport Number"] = Source(k, "passport_number")
                  /\ df[k]["Passport Expiry Date"] = Source(k, "expiration_date")
                  /\ IsFirst3Of(df[k]["Passport Nationality"], Source(k, "nationality"))
                  /\ IsFirst3Of(df[k]["Passport Issue Country"], Source(k, "issuing_country"))
                  /\ \A c \in FLYDUBAI_EMPTY \ {"Passport Middle Name"} : df[k][c] = EmptyStr

\* a Flydubai table of two rows: a record with a lower-case m and a record
\* with another sex, both with a nationality longer than three characters
C15_Witness ==
    /\ Formatted
    /\ fmt_airline = TextFlydubaiChoice
    /\ Len(df) = 2
    /\ Source(1, "sex") = <<"m">> /\ df[1]["Title"] = TextMR
    /\ Source(2, "sex") = <<"F">> /\ df[2]["Title"] = TextMRS
    /\ Len(Source(1, "nationality")) > 3
    /\ df[1]["Passport Nationality"] = <<"U","T","O">>

\* the record keys the two airline schemas read (formats.py lines 20-28, 47-78)
FORMAT_KEYS ==
    {"sex", "name", "surname", "date_of_birth", "passport_number", "nationality",
     "issuing_country", "expiration_date"}
\* the record keys some airline profile of either validator requires
REQUIRED_KEYS ==
    UNION {Range(RequiredFields(a)) : a \in {TextIraq, TextFlydubai}}
    \cup UNION {Range(RequiredFieldsV(a)) : a \in {TextIraqi, TextFlydubai}}
\* a record of get_data none of whose fields is empty
IsFullyDecoded(r) ==
    /\ r = DecodedRecord
    /\ \A f \in DOMAIN r \ {"kind", "valid_score"} : Truthy(r[f])

\* C25: every key a validator requires or a schema reads is a key of the
\* record get_data returns, so a record decoded from an MRZ whose fields are
\* all non-empty passes Flydubai validation and gets a non-empty Passport
\* Issue Country column.
C25_RecordKeysServeValidatorsAndSchemas ==
    \A k \in DOMAIN fmt_results :
        IsFullyDecoded(fmt_results[k]) =>
            /\ REQUIRED_KEYS \cup FORMAT_KEYS \subseteq DOMAIN fmt_results[k]
            /\ validate_passport_data(fmt_results[k], TextFlydubai).is_valid
            /\ (Formatted /\ fmt_airline = TextFlydubaiChoice) =>
                   df[k]["Passport Issue Country"] # EmptyStr

----------------------------------------------------------------------------
(* Claims about the field normalizers                                      *)

\* C16 as stated: get_sex returns M for M, F for F, M for the digit 0, and
\* every other input unchanged.
C16_OtherValuesUnchanged ==
    pcUtil = "get_sex" =>
        util_out = (IF util_in = <<"M">> THEN <<"M">>
                    ELSE IF util_in = <<"F">> THEN <<"F">>
                    ELSE IF util_in = <<"0">> THEN <<"M">>
                    ELSE util_in)

\* C16: for a text or None, get_sex returns M for M, m and the digit 0, F
\* for F and f, the empty text for None and for the empty text, and every
\* other text upper-cased.
C16_OtherValuesUpperCased ==
    pcUtil = "get_sex" =>
        util_out = (IF util_in \in {<<"M">>, <<"m">>, <<"0">>} THEN <<"M">>
                    ELSE IF util_in \in {<<"F">>, <<"f">>} THEN <<"F">>
                    ELSE IF util_in \in {None, EmptyStr} THEN EmptyStr
                    ELSE Upper(util_in))

\* a lower-case text that is no sex code came back upper-cased
C16_Witness ==
    /\ pcUtil = "get_sex"
    /\ util_in = <<"x">>
    /\ util_out = <<"X">>

Alpha3Keys == {COUNTRY_CODES[k].alpha3 : k \in DOMAIN COUNTRY_CODES}
CODE_FIELDS == {"country", "nationality"}

IsResolutionOf(out, code) ==
    LET text == Upper(Str(code)) IN
    IF text \in Alpha3Keys
    THEN \E k \in DOMAIN COUNTRY_CODES :
            COUNTRY_CODES[k].alpha3 = text /\ out = Upper(COUNTRY_CODES[k].name)
    ELSE out = text

----------------------------------------------------------------------------
(* Claims about the lines the acquisition returns                          *)

\* the latest acquisition ended with the OCR of the located region, which
\* read two lines or more
RegionRead ==
    /\ img_path # 0
    /\ calls # <<>>
    /\ calls[Len(calls)].op = "readtext_roi"
    /\ calls[Len(calls)].out = "ok"
    /\ Len(LastImage.roi_text) >= 2
OcrLine1 == clean_mrz_line(LastImage.roi_text[1])
OcrLine2 == clean_mrz_line(LastImage.roi_text[2])
DetectorSex == line_pair.mrz.sex

\* C18: when the detector reported a sex code and the cleaned line 2 has a
\* character at offset 20, the returned line 2 is the cleaned line 2 with
\* that one character replaced by the detector's code: same length, same
\* characters at every other offset; line 1 is the cleaned line 1. When the
\* detector reported no sex code, line 2 is the cleaned line 2.
C18_OnlySexOffsetOverwritten ==
    RegionRead =>
        \E ocr2 \in {OcrLine2} :
            /\ line_pair.line1 = OcrLine1
            /\ Len(line_pair.line2) = Len(ocr2)
            /\ \A p \in DOMAIN ocr2 : p # SEX_OFFSET + 1 => line_pair.line2[p] = ocr2[p]
            /\ (DetectorSex # EmptyStr /\ Len(ocr2) > SEX_OFFSET) =>
                  <<line_pair.line2[SEX_OFFSET + 1]>> = DetectorSex
            /\ DetectorSex = EmptyStr => line_pair.line2 = ocr2

\* the OCR read M at offset 20, the detector reported F, and F was returned
C18_Witness ==
    /\ RegionRead
    /\ OcrLine2[SEX_OFFSET + 1] = "M"
    /\ DetectorSex = <<"F">>
    /\ line_pair.line2[SEX_OFFSET + 1] = "F"
    /\ line_pair.line2 # OcrLine2

\* the text of a line upper-cased, without spaces and without any character
\* outside A-Z, 0-9 and the filler
CleanedText(line) ==
    IF Falsy(line) THEN EmptyStr ELSE SelectSeq(RemoveChar(Upper(line), SPACE), IsAllowed)
Qualifies(text) == Len(text) > 30 /\ (HasSep(text) \/ StartsWithPrefix(text))
PageRead == FallbackRan /\ calls[Len(calls)].out = "ok"

\* C19: every candidate of the full-page fallback comes from a line whose
\* cleaned text is longer than 30 characters and contains '<<' or begins
\* with P<, I<, A< or V<.
C19_CandidatesAreLongLines ==
    PageRead =>
        \A c \in DOMAIN potential_lines :
            \E k \in DOMAIN LastImage.page_text :
                /\ clean_mrz_line(LastImage.page_text[k]) = potential_lines[c]
                /\ Qualifies(CleanedText(LastImage.page_text[k]))

PrefixBeforeLastTwo ==
    {k \in 1..(Len(potential_lines) - 2) : StartsWithPrefix(potential_lines[k])}
LastTwoReturned ==
    /\ line_pair.line1 = potential_lines[Len(potential_lines) - 1]
    /\ line_pair.line2 = potential_lines[Len(potential_lines)]
ReturnedFrom(k) ==
    /\ line_pair.line1 = potential_lines[k]
    /\ line_pair.line2 = potential_lines[k + 1]

\* C20 as stated: the pair is the last two candidates unless a candidate
\* beginning with P<, I<, A< or V< precedes them, and then it is that
\* candidate and the one after it.
C20_ReanchoredWheneverPrefixElsewhere ==
    (PageRead /\ Len(potential_lines) >= 2) =>
        IF PrefixBeforeLastTwo = {} THEN LastTwoReturned
        ELSE \E k \in PrefixBeforeLastTwo : ReturnedFrom(k)

\* C20: the pair is the last two candidates unless the second to last does
\* not begin with P, I, A or V and a candidate beginning with P<, I<, A< or
\* V< precedes the last two; then it is the first such candidate and the one
\* after it.
C20_ReanchoredWhenLine1Implausible ==
    (PageRead /\ Len(potential_lines) >= 2) =>
        IF \/ PrefixBeforeLastTwo = {}
           \/ potential_lines[Len(potential_lines) - 1][1] \in {"P", "I", "A", "V"}
        THEN LastTwoReturned
        ELSE \E k \in PrefixBeforeLastTwo :
                /\ ReturnedFrom(k)
                /\ \A j \in PrefixBeforeLastTwo : k <= j

\* three candidates, the last two beginning with no document letter: the
\* pair starts at the first candidate
C20_Witness ==
    /\ PageRead
    /\ Len(potential_lines) = 3
    /\ potential_lines[2][1] \notin {"P", "I", "A", "V"}
    /\ PrefixBeforeLastTwo = {1}
    /\ ReturnedFrom(1)
    /\ ~LastTwoReturned

----------------------------------------------------------------------------
(* Claims about the name fields of a record                                *)

HasFiller(text) == \E p \in DOMAIN text : text[p] = FILLER

\* C21: for every input text, the output of clean_name_field holds no
\* filler character '<', and neither the surname nor the name of a record
\* get_data builds holds one.
C21_NoFillerInNames ==
    /\ pcUtil = "clean_name_field" => ~HasFiller(util_out)
    /\ pcUtil = "get_data names" =>
          /\ util_out # NoneData
          /\ ~HasFiller(util_out.surname)
          /\ ~HasFiller(util_out.name)

\* a record built from a text with single and double fillers, which kept
\* words from either side of them
C21_Witness ==
    /\ pcUtil = "get_data names"
    /\ util_in = <<"a","<","a","<","<","a">>
    /\ util_out.surname = <<"A"," ","A"," ","A">>
    /\ util_out.name = <<"A"," ","A"," ","A">>

----------------------------------------------------------------------------
(* Claims about the PDF branch                                             *)

\* the pages of a PDF on which get_data gives a record, in page order
PagesWithData(f) == SelectSeq(f.pages, LAMBDA page : get_data(page).data # NoneData)
RecordsOf(k) == SelectSeq(all_results, LAMBDA res : res.source_file = k)
IsHandledPdf(k) ==
    /\ k < file_i
    /\ uploaded_files[k].kind = "pdf"
    /\ uploaded_files[k].size <= MAX_FILE_SIZE

====
